---------------------------- MODULE Spec2Model ----------------------------
(***************************************************************************)
(* Linear orthotree (Morton Z-order keyed hash map of nodes) of the        *)
(* 2B-pencil/Octree library, instantiated as a quadtree (DIMENSION_NO = 2) *)
(* over a contiguous entity container.  Geometry is integer valued and the *)
(* world box is a power of two wide, so that every rasterisation the code  *)
(* does in floating point is exact and is computed here with integers.     *)
(***************************************************************************)
EXTENDS Integers, Sequences, FiniteSets, TLC

\* Template parameter of the tree: number of dimensions.
DIMENSION_NO == 2

\* Bounds of the model.
MaxDepthID == 2
MaxElementNo == 2
MaxEntityNo == 3
\* number of initialisations of one tree object the cached sizes are exact for
MaxInitNo == 2

Dims == 1..DIMENSION_NO

Pow2(n) == 2 ^ n

CHILD_NO == Pow2(DIMENSION_NO)
CHILD_MASK == CHILD_NO - 1

Min2(a, b) == IF a < b THEN a ELSE b
Max2(a, b) == IF a < b THEN b ELSE a

---------------------------------------------------------------------------
\* Bit arithmetic on naturals (the code's unsigned integers; no value of the
\* model comes near the 32 bit width).

RECURSIVE BitAnd(_, _)
BitAnd(a, b) ==
  IF a = 0 \/ b = 0 THEN 0
  ELSE (a % 2) * (b % 2) + 2 * BitAnd(a \div 2, b \div 2)

RECURSIVE BitOr(_, _)
BitOr(a, b) ==
  IF a = 0 THEN b
  ELSE IF b = 0 THEN a
  ELSE Max2(a % 2, b % 2) + 2 * BitOr(a \div 2, b \div 2)

RECURSIVE BitXor(_, _)
BitXor(a, b) ==
  IF a = 0 THEN b
  ELSE IF b = 0 THEN a
  ELSE ((a + b) % 2) + 2 * BitXor(a \div 2, b \div 2)

ShiftR(a, n) == a \div Pow2(n)
ShiftL(a, n) == a * Pow2(n)

RECURSIVE BitWidth(_)
BitWidth(a) == IF a = 0 THEN 0 ELSE 1 + BitWidth(a \div 2)

RECURSIVE PopCount(_)
PopCount(a) == IF a = 0 THEN 0 ELSE (a % 2) + PopCount(a \div 2)

\* The set of child ids whose bit is set in a child bitmask, and back.
BitSet(mask) == {c \in 0..(CHILD_NO - 1) : ShiftR(mask, c) % 2 = 1}

---------------------------------------------------------------------------
\* The world box handled by the tree and its raster.

WorldSize == Pow2(MaxDepthID + 1)
BoxSpace == [Min |-> [d \in Dims |-> 0], Max |-> [d \in Dims |-> WorldSize]]

maxRasterResolution == Pow2(MaxDepthID)
maxRasterID == maxRasterResolution - 1

\* pointComponent * m_rasterizerFactors[d], as the exact rational
\* num / WorldSize; its floor and whether it is a whole number.
RasterNum(c, d) == (c - BoxSpace.Min[d]) * maxRasterResolution
RasterFloor(c, d) == RasterNum(c, d) \div WorldSize
RasterIsWhole(c, d) == RasterNum(c, d) % WorldSize = 0

DoesBoxContainPointAD(box, p) ==
  \A d \in Dims : box.Min[d] <= p[d] /\ p[d] <= box.Max[d]

DoesRangeContainBoxAD(range, box) ==
  \A d \in Dims : range.Min[d] <= box.Min[d] /\ box.Max[d] <= range.Max[d]

GetPointGridID(p) ==
  [d \in Dims |-> Min2(maxRasterID, RasterFloor(p[d], d))]

GetEdgePointGridID(p) ==
  LET hi == [d \in Dims |->
               IF RasterNum(p[d], d) < 0 THEN 0
               ELSE IF RasterNum(p[d], d) > maxRasterID * WorldSize THEN maxRasterID
               ELSE RasterFloor(p[d], d)]
      \* the whole-number test is made on the clamped raster id
      whole == [d \in Dims |->
                  \/ RasterNum(p[d], d) < 0
                  \/ RasterNum(p[d], d) > maxRasterID * WorldSize
                  \/ RasterIsWhole(p[d], d)]
      lo == [d \in Dims |->
               IF 0 < hi[d] /\ hi[d] < maxRasterResolution /\ whole[d]
               THEN hi[d] - 1 ELSE hi[d]]
  IN <<lo, hi>>

\* GetBoxGridID<false>: entity boxes and box-tree ranges.
GetBoxGridID(box) ==
  LET clampFloor(c, d) ==
        IF RasterNum(c, d) < 0 THEN 0
        ELSE IF RasterNum(c, d) > maxRasterResolution * WorldSize THEN maxRasterResolution
        ELSE RasterFloor(c, d)
      lo == [d \in Dims |-> clampFloor(box.Min[d], d)]
      hi0 == [d \in Dims |-> clampFloor(box.Max[d], d)]
      hi == [d \in Dims |->
               IF \/ (lo[d] # hi0[d] /\ RasterIsWhole(box.Max[d], d))
                  \/ hi0[d] >= maxRasterResolution
               THEN hi0[d] - 1 ELSE hi0[d]]
  IN <<lo, hi>>

\* GetBoxGridID<true>: point-like classification of a range.  The cast of
\* a raster id <= -1 to the unsigned GridID is undefined; ub is the grid
\* id the build yields for it.
UBGridIDs == {0, maxRasterID}
GetBoxGridIDPointLike(box, ub) ==
  LET cast(c, d) == IF RasterNum(c, d) <= -WorldSize THEN ub
                    ELSE IF RasterNum(c, d) < 0 THEN 0
                    ELSE RasterFloor(c, d)
  IN << [d \in Dims |-> Min2(maxRasterID, cast(box.Min[d], d))],
        [d \in Dims |-> Min2(maxRasterID, cast(box.Max[d], d))] >>

---------------------------------------------------------------------------
\* Morton space indexing.

\* Part1By1 generalised: spreads the bits of a grid id DIMENSION_NO apart.
RECURSIVE SpreadBits(_)
SpreadBits(g) ==
  IF g = 0 THEN 0 ELSE (g % 2) + CHILD_NO * SpreadBits(g \div 2)

RECURSIVE EncodeFrom(_, _)
EncodeFrom(gridID, d) ==
  IF d > DIMENSION_NO THEN 0
  ELSE ShiftL(SpreadBits(gridID[d]), d - 1) + EncodeFrom(gridID, d + 1)

Encode(gridID) == EncodeFrom(gridID, 1)

GetRootKey == 1
GetNoneKey == 0
IsValidKey(key) == key > 0
GetParentKey(key) == ShiftR(key, DIMENSION_NO)
GetChildNodeKey(parentKey, childID) == BitOr(ShiftL(parentKey, DIMENSION_NO), childID)
GetDepthID(key) == (BitWidth(key) - 1) \div DIMENSION_NO
GetHash(depth, locationID) == BitOr(ShiftL(1, depth * DIMENSION_NO), locationID)
GetHashAtDepth(location, maxDepthID) ==
  BitOr(ShiftL(1, location.DepthID * DIMENSION_NO),
        ShiftR(location.LocID, (maxDepthID - location.DepthID) * DIMENSION_NO))

GetChildIDOfKey(key) == BitAnd(key, CHILD_MASK)
GetChildID(locationID, examinationLevelID) ==
  GetChildIDOfKey(ShiftR(locationID, DIMENSION_NO * (examinationLevelID - 1)))
GetChildIDByDepth(parentDepth, childDepth, childNodeKey) ==
  GetChildID(childNodeKey, childDepth - parentDepth)
IsAllChildTouched(touchedDimensionsFlag) == touchedDimensionsFlag = CHILD_MASK

GetRangeLocationID(gridIDRange) == <<Encode(gridIDRange[1]), Encode(gridIDRange[2])>>

\* GetRangeLocationMetaData with the level rounded down: the mutation of it.
GetRangeLocationMetaDataRoundedDown(maxDepthID, locationIDRange) ==
  LET dl0 == [DepthID |-> maxDepthID, LocID |-> locationIDRange[1],
              TouchedDimensionsFlag |-> 0, LowerSegmentID |-> 0]
      locationDifference == BitXor(locationIDRange[1], locationIDRange[2])
      levelID == BitWidth(locationDifference) \div DIMENSION_NO
      shiftToChildSegment == (levelID - 1) * DIMENSION_NO
      shifted == ShiftR(locationIDRange[1], shiftToChildSegment)
  IN IF locationIDRange[1] = locationIDRange[2] \/ levelID = 0 THEN dl0
     ELSE [DepthID |-> maxDepthID - levelID,
           LocID |-> ShiftL(ShiftR(shifted, DIMENSION_NO), shiftToChildSegment + DIMENSION_NO),
           TouchedDimensionsFlag |-> BitAnd(ShiftR(locationDifference, shiftToChildSegment), CHILD_MASK),
           LowerSegmentID |-> BitAnd(shifted, CHILD_MASK)]

GetRangeLocationMetaDataOfIDs(maxDepthID, locationIDRange) ==
  LET dl0 == [DepthID |-> maxDepthID, LocID |-> locationIDRange[1],
              TouchedDimensionsFlag |-> 0, LowerSegmentID |-> 0]
      locationDifference == BitXor(locationIDRange[1], locationIDRange[2])
      levelID == (BitWidth(locationDifference) + DIMENSION_NO - 1) \div DIMENSION_NO
      shiftToChildSegment == (levelID - 1) * DIMENSION_NO
      shifted == ShiftR(locationIDRange[1], shiftToChildSegment)
  IN IF locationIDRange[1] = locationIDRange[2] \/ levelID = 0 THEN dl0
     ELSE [DepthID |-> maxDepthID - levelID,
           LocID |-> ShiftL(ShiftR(shifted, DIMENSION_NO), shiftToChildSegment + DIMENSION_NO),
           TouchedDimensionsFlag |-> BitAnd(ShiftR(locationDifference, shiftToChildSegment), CHILD_MASK),
           LowerSegmentID |-> BitAnd(shifted, CHILD_MASK)]

\* Location of a point entity and of a box entity.
GetRangeLocationMetaDataPoint(p) ==
  [DepthID |-> MaxDepthID, LocID |-> Encode(GetPointGridID(p)),
   TouchedDimensionsFlag |-> 0, LowerSegmentID |-> 0]
GetRangeLocationMetaDataBox(box) ==
  GetRangeLocationMetaDataOfIDs(MaxDepthID, GetRangeLocationID(GetBoxGridID(box)))

---------------------------------------------------------------------------
\* State of one tree together with the caller's entity container.

VARIABLES
  kind,    \* "point": OrthoTreePoint, "box": OrthoTreeBoundingBox
  split,   \* DO_SPLIT_PARENT_ENTITIES (box tree only)
  nodes,   \* m_nodes: node key -> [ents: entity ids, children: child ids]
  geom,    \* the caller's contiguous container; entity id e is geom[e + 1]
  last,    \* the last call: operation, arguments and what it returned
  hist,    \* progress of an insert e / erase e / insert e sequence
  nodeSizes, \* m_nodeSizes: node size per depth, in units of 1 / SizeUnit
  m_memoryResource, \* the arena of the entity ids, where a specification follows it
  tasks    \* the tasks of a parallel loop over the nodes that is under way

vars == <<kind, split, nodes, geom, last, hist, nodeSizes, m_memoryResource, tasks>>

EntityIDs == 0..(MaxEntityNo - 1)

\* A container slot whose entity the caller has taken out of the tree
\* without renumbering; the tree never reads it.
NoGeom == <<>>

At(coll, e) == coll[e + 1]

EmptyNode == [ents |-> <<>>, children |-> {}]

Range(seq) == {seq[i] : i \in DOMAIN seq}

\* Ids stored in the tree, and the number of nodes that store id e.
StoredIDs(ns) == UNION {Range(ns[k].ents) : k \in DOMAIN ns}
NodesOf(ns, e) == {k \in DOMAIN ns : e \in Range(ns[k].ents)}

---------------------------------------------------------------------------
\* Initialisation of a tree object.

\* Type system determined maximal depth id: NodeID has 32 bits below four
\* dimensions, one of them the sentinel bit.
MAX_THEORETICAL_DEPTH_ID == (32 - 1) \div DIMENSION_NO

\* EstimateMaxDepth.  A division by maxElementNo = 0 is undefined: it
\* traps, or goes on with any quotient, which the clamp brings into
\* 2..MAX_THEORETICAL_DEPTH_ID.
EstimateMaxDepth(elementNo, maxElementNo) ==
  IF elementNo <= maxElementNo THEN {[trap |-> FALSE, depth |-> 2]}
  ELSE IF maxElementNo = 0
  THEN {[trap |-> TRUE, depth |-> 2]}
       \cup {[trap |-> FALSE, depth |-> n] : n \in {2, MAX_THEORETICAL_DEPTH_ID}}
  ELSE LET nLeaf == elementNo \div maxElementNo
           estimated == (BitWidth(nLeaf) - 1) \div DIMENSION_NO
       IN {[trap |-> FALSE,
            depth |-> Max2(2, Min2(estimated, MAX_THEORETICAL_DEPTH_ID))]}

\* The CRASH_IF conditions of InitBase.
IsInitRefused(ns, maxDepthID, maxElementNo) ==
  \/ DOMAIN ns # {}
  \/ maxDepthID < 1
  \/ maxDepthID > MAX_THEORETICAL_DEPTH_ID
  \/ maxDepthID >= 255
  \/ maxElementNo = 0
  \/ 32 < maxDepthID

\* Denominator of the cached node sizes.
SizeUnit == Pow2(MaxInitNo * (MaxDepthID + 2))

\* m_nodeSizes.resize(examinedDepthSize, m_grid.GetSizes()): the elements
\* the vector has are kept, the sizes of the world box are appended.
ResizedNodeSizes(sizes, examinedDepthSize) ==
  [i \in 1..examinedDepthSize |->
     IF i <= Len(sizes) THEN sizes[i]
     ELSE [d \in Dims |-> (BoxSpace.Max[d] - BoxSpace.Min[d]) * SizeUnit]]

\* The loop of InitBase over the depths: the size at depthID is multiplied
\* by 0.5 ^ depthID.
InitNodeSizes(sizes, maxDepthID) ==
  LET examinedDepthSize == maxDepthID + 3
      resized == ResizedNodeSizes(sizes, examinedDepthSize)
  IN [i \in 1..examinedDepthSize |-> [d \in Dims |-> resized[i][d] \div Pow2(i - 1)]]

\* Whether the sizes InitNodeSizes yields are whole numbers of units.
AreNodeSizesExact(sizes, maxDepthID) ==
  LET resized == ResizedNodeSizes(sizes, maxDepthID + 3)
  IN \A i \in DOMAIN resized : \A d \in Dims : resized[i][d] % Pow2(i - 1) = 0

\* InitBase without its CRASH_IF conditions.
InitBaseUnchecked(ns, sizes, maxDepthID, maxElementNo) ==
  [crash |-> FALSE,
   ns |-> (GetRootKey :> EmptyNode),
   sizes |-> InitNodeSizes(sizes, maxDepthID)]

\* InitBase: the process is terminated, or the tree has its root node
\* and its node sizes.
InitBase(ns, sizes, maxDepthID, maxElementNo) ==
  IF IsInitRefused(ns, maxDepthID, maxElementNo)
  THEN [crash |-> TRUE, ns |-> ns, sizes |-> sizes]
  ELSE [crash |-> FALSE,
        ns |-> (GetRootKey :> EmptyNode),
        sizes |-> InitNodeSizes(sizes, maxDepthID)]

\* Reset: m_nodes.clear(), m_grid = {} and m_memoryResource.Reset(); the
\* vector of the node sizes is left as it is.
Reset(ns, sizes) == [ns |-> <<>>, sizes |-> sizes]

---------------------------------------------------------------------------
\* Node and entity-segment primitives.

AddNodeEntity(ns, key, e) == [ns EXCEPT ![key].ents = Append(@, e)]

\* Node::RemoveEntity (std::remove) followed by DecreaseSegment(.., 1).
RemovedEnts(ents, e) ==
  LET kept == SelectSeq(ents, LAMBDA x : x # e)
  IN kept \o SubSeq(ents, Len(kept) + 1, Len(ents) - 1)
RemoveNodeEntity(ns, key, e) ==
  IF e \in Range(ns[key].ents)
  THEN [ns EXCEPT ![key].ents = RemovedEnts(@, e)]
  ELSE ns

DecreaseEntityIDs(ns, removed) ==
  [k \in DOMAIN ns |->
     [ns[k] EXCEPT !.ents = [i \in DOMAIN @ |-> IF removed < @[i] THEN @[i] - 1 ELSE @[i]]]]

AddChild(ns, key, childID) == [ns EXCEPT ![key].children = @ \cup {childID}]
HasChild(ns, key, childID) == childID \in ns[key].children
IsAnyChildExist(ns, key) == ns[key].children # {}

\* m_nodes.emplace: no effect when the key is already present.
Emplace(ns, key) == IF key \in DOMAIN ns THEN ns ELSE (key :> EmptyNode) @@ ns

\* CreateChildWithEntity without the AddNodeEntity.
CreateChildOnly(ns, parentKey, childID, e) ==
  Emplace(AddChild(ns, parentKey, childID), GetChildNodeKey(parentKey, childID))

\* AddChild, emplace of the child node, AddNodeEntity on it.
CreateChildWithEntity(ns, parentKey, childID, e) ==
  LET childKey == GetChildNodeKey(parentKey, childID)
  IN AddNodeEntity(Emplace(AddChild(ns, parentKey, childID), childKey), childKey, e)

\* RemoveNodeIfPossible without the test of the node's entities.
RemoveNodeIfChildless(ns, key) ==
  IF key = GetRootKey THEN ns
  ELSE IF IsAnyChildExist(ns, key) THEN ns
  ELSE LET parentKey == GetParentKey(key)
           unlinked == [ns EXCEPT ![parentKey].children = @ \ {GetChildIDOfKey(key)}]
       IN [k \in DOMAIN ns \ {key} |-> unlinked[k]]

\* RemoveNodeIfPossible without the RemoveChild on the parent.
RemoveNodeOnly(ns, key) ==
  IF key = GetRootKey THEN ns
  ELSE IF IsAnyChildExist(ns, key) \/ ns[key].ents # <<>> THEN ns
  ELSE [k \in DOMAIN ns \ {key} |-> ns[k]]

RemoveNodeIfPossible(ns, key) ==
  IF key = GetRootKey THEN ns
  ELSE IF IsAnyChildExist(ns, key) \/ ns[key].ents # <<>> THEN ns
  ELSE LET parentKey == GetParentKey(key)
           unlinked == [ns EXCEPT ![parentKey].children = @ \ {GetChildIDOfKey(key)}]
       IN [k \in DOMAIN ns \ {key} |-> unlinked[k]]

RECURSIVE FindSmallestNodeKey(_, _)
FindSmallestNodeKey(ns, searchKey) ==
  IF ~IsValidKey(searchKey) THEN GetNoneKey
  ELSE IF searchKey \in DOMAIN ns THEN searchKey
  ELSE FindSmallestNodeKey(ns, GetParentKey(searchKey))

\* Location and node key of entity geometry g in the tree of this kind.
LocationOf(g) ==
  IF kind = "point" THEN GetRangeLocationMetaDataPoint(g)
  ELSE GetRangeLocationMetaDataBox(g)
GetNodeID(g) == GetHashAtDepth(LocationOf(g), MaxDepthID)
IsInBoxSpace(g) ==
  IF kind = "point" THEN DoesBoxContainPointAD(BoxSpace, g)
  ELSE DoesRangeContainBoxAD(BoxSpace, g)
FindSmallestNode(ns, g) ==
  IF ~IsInBoxSpace(g) THEN GetNoneKey ELSE FindSmallestNodeKey(ns, GetNodeID(g))

---------------------------------------------------------------------------
\* Insertion.

\* The child segment one permutation of the touched dimensions selects.
RECURSIVE SegmentBits(_, _, _)
SegmentBits(permutationID, touched, dimensionMask) ==
  IF dimensionMask > touched THEN 0
  ELSE IF BitAnd(touched, dimensionMask) # 0
       THEN (IF permutationID % 2 = 1 THEN dimensionMask ELSE 0)
            + SegmentBits(permutationID \div 2, touched, 2 * dimensionMask)
       ELSE SegmentBits(permutationID, touched, 2 * dimensionMask)

\* GetSplitChildSegments without the touched dimensions: every child.
GetEveryChildSegment(location) == [i \in 1..CHILD_NO |-> i - 1]

GetSplitChildSegments(location) ==
  [i \in 1..Pow2(PopCount(location.TouchedDimensionsFlag)) |->
     SegmentBits(i - 1, location.TouchedDimensionsFlag, 1) + location.LowerSegmentID]

\* doInsertToLeaf: create the missing nodes from the first existing node
\* on the way up (at the latest existingParentKey) down to key.
RECURSIVE CreateNodePath(_, _, _)
CreateNodePath(ns, key, existingParentKey) ==
  IF key = existingParentKey \/ key \in DOMAIN ns \/ ~IsValidKey(key) THEN ns
  ELSE LET above == CreateNodePath(ns, GetParentKey(key), existingParentKey)
       IN Emplace(AddChild(above, GetParentKey(key), GetChildIDOfKey(key)), key)

InsertWithoutRebalancingBase(ns, existingParentKey, entityNodeKey, e, doInsertToLeaf) ==
  IF entityNodeKey = existingParentKey THEN AddNodeEntity(ns, entityNodeKey, e)
  ELSE IF doInsertToLeaf
       THEN AddNodeEntity(CreateNodePath(ns, entityNodeKey, existingParentKey), entityNodeKey, e)
       ELSE IF IsAnyChildExist(ns, existingParentKey)
            THEN CreateChildWithEntity(
                   ns, existingParentKey,
                   GetChildIDByDepth(GetDepthID(existingParentKey), GetDepthID(entityNodeKey), entityNodeKey),
                   e)
            ELSE AddNodeEntity(ns, existingParentKey, e)

\* FullRebalancing that moves no entity: the mutation of the loop.
FullRebalancingOfNone(ns, parentKey, parentDepth, doSplit, coll, i, n) == ns

\* The case InsertWithRebalancingBase takes.
ControlFlow(ns, parentKey, parentDepth, doSplit, location) ==
  LET isEntitySplit == doSplit /\ ~IsAllChildTouched(location.TouchedDimensionsFlag)
      newEntityNodeKey == GetHashAtDepth(location, MaxDepthID)
      shouldInsertInParentNode ==
        newEntityNodeKey = parentKey \/ (isEntitySplit /\ location.DepthID < parentDepth)
  IN IF parentDepth = MaxDepthID
     THEN "InsertInParentNode"
     ELSE IF IsAnyChildExist(ns, parentKey) /\ isEntitySplit /\ location.DepthID = parentDepth
     THEN "SplitToChildren"
     ELSE IF IsAnyChildExist(ns, parentKey) /\ ~shouldInsertInParentNode
     THEN "ShouldCreateOnlyOneChild"
     ELSE IF Len(ns[parentKey].ents) + 1 >= MaxElementNo
     THEN "FullRebalancing"
     ELSE "InsertInParentNode"

RECURSIVE InsertWithRebalancingBase(_, _, _, _, _, _, _)
RECURSIVE InsertWithRebalancingSplitToChildren(_, _, _, _, _, _, _)
RECURSIVE FullRebalancingLoop(_, _, _, _, _, _, _)

\* One step of the loop over GetSplitChildSegments, from segment index i.
InsertWithRebalancingSplitToChildren(ns, parentKey, parentDepth, location, e, coll, i) ==
  LET segments == GetSplitChildSegments(location)
  IN IF i > Len(segments) THEN ns
     ELSE LET childID == segments[i]
              childKey == GetChildNodeKey(parentKey, childID)
              ns1 == IF HasChild(ns, parentKey, childID)
                     THEN InsertWithRebalancingBase(ns, childKey, parentDepth + 1, TRUE, location, e, coll)
                     ELSE CreateChildWithEntity(ns, parentKey, childID, e)
          IN InsertWithRebalancingSplitToChildren(ns1, parentKey, parentDepth, location, e, coll, i + 1)

\* The loop of the FullRebalancing case: i is the index examined, n the
\* number of entities of the parent still to keep or to examine.
FullRebalancingLoop(ns, parentKey, parentDepth, doSplit, coll, i, n) ==
  IF i >= n THEN [ns EXCEPT ![parentKey].ents = SubSeq(@, 1, n)]
  ELSE
    LET entityID == ns[parentKey].ents[i + 1]
        entityLocation == LocationOf(At(coll, entityID))
        isLocationSplit == doSplit /\ ~IsAllChildTouched(entityLocation.TouchedDimensionsFlag)
        childID == GetChildID(entityLocation.LocID, MaxDepthID - parentDepth)
        smallest == FindSmallestNodeKey(ns, GetHashAtDepth(entityLocation, MaxDepthID))
        moved ==
          IF isLocationSplit /\ entityLocation.DepthID = parentDepth
          THEN InsertWithRebalancingSplitToChildren(ns, parentKey, parentDepth, entityLocation, entityID, coll, 1)
          ELSE IF HasChild(ns, parentKey, childID)
               THEN InsertWithRebalancingBase(ns, smallest, GetDepthID(smallest), doSplit,
                                              entityLocation, entityID, coll)
               ELSE CreateChildWithEntity(ns, parentKey, childID, entityID)
    IN IF entityLocation.DepthID + (IF isLocationSplit THEN 1 ELSE 0) <= parentDepth
       THEN FullRebalancingLoop(ns, parentKey, parentDepth, doSplit, coll, i + 1, n)
       ELSE FullRebalancingLoop(
              [moved EXCEPT ![parentKey].ents = [@ EXCEPT ![i + 1] = moved[parentKey].ents[n]]],
              parentKey, parentDepth, doSplit, coll, i, n - 1)

InsertWithRebalancingBase(ns, parentKey, parentDepth, doSplit, location, e, coll) ==
  LET cf == ControlFlow(ns, parentKey, parentDepth, doSplit, location)
  IN IF cf = "ShouldCreateOnlyOneChild"
     THEN CreateChildWithEntity(ns, parentKey, GetChildID(location.LocID, MaxDepthID - parentDepth), e)
     ELSE IF cf = "FullRebalancing"
     THEN LET added == AddNodeEntity(ns, parentKey, e)
          IN FullRebalancingLoop(added, parentKey, parentDepth, doSplit, coll, 0, Len(added[parentKey].ents))
     ELSE IF cf = "SplitToChildren"
     THEN InsertWithRebalancingSplitToChildren(ns, parentKey, parentDepth, location, e, coll, 1)
     ELSE AddNodeEntity(ns, parentKey, e)

---------------------------------------------------------------------------
\* Create: bulk build of the tree over a container (every entity inside the
\* world box).  The nodes' entity lists are given in ascending id order.

RECURSIVE SetToSeq(_)
SetToSeq(S) ==
  IF S = {} THEN <<>>
  ELSE LET m == CHOOSE x \in S : \A y \in S : x <= y
       IN <<m>> \o SetToSeq(S \ {m})

\* Child id, below a node of depth depthID, of the branch location id leads to.
ChildIDBelow(locID, depthID) == GetChildID(locID, MaxDepthID - depthID)

RECURSIVE MergeNodes(_, _)
MergeNodes(f, S) ==
  IF S = {} THEN f
  ELSE LET g == CHOOSE x \in S : TRUE IN MergeNodes(f @@ g, S \ {g})

RECURSIVE PointBuild(_, _, _, _)
PointBuild(key, depthID, ids, coll) ==
  IF (0 < Cardinality(ids) /\ Cardinality(ids) <= MaxElementNo) \/ depthID = MaxDepthID
  THEN key :> [ents |-> SetToSeq(ids), children |-> {}]
  ELSE LET childOf(e) == ChildIDBelow(GetRangeLocationMetaDataPoint(At(coll, e)).LocID, depthID)
           childIDs == {childOf(e) : e \in ids}
       IN MergeNodes(key :> [ents |-> <<>>, children |-> childIDs],
                     {PointBuild(GetChildNodeKey(key, c), depthID + 1,
                                 {e \in ids : childOf(e) = c}, coll) : c \in childIDs})

\* BuildSubtree with ProcessNodeWithoutSplitEntities.
\* BoxBuild that keeps no box in a node it divides: the mutation of it.
RECURSIVE BoxBuildWithoutStucked(_, _, _, _)
BoxBuildWithoutStucked(key, depthID, ids, coll) ==
  LET loc(e) == GetRangeLocationMetaDataBox(At(coll, e))
      doesDivide == Cardinality(ids) > MaxElementNo /\ depthID < MaxDepthID
      stucked == IF doesDivide THEN {} ELSE ids
      childOf(e) == ChildIDBelow(loc(e).LocID, depthID)
      childIDs == {childOf(e) : e \in ids \ stucked}
  IN MergeNodes(key :> [ents |-> SetToSeq(stucked), children |-> childIDs],
                {BoxBuildWithoutStucked(GetChildNodeKey(key, c), depthID + 1,
                                        {e \in (ids \ stucked) : childOf(e) = c}, coll) : c \in childIDs})

RECURSIVE BoxBuild(_, _, _, _)
BoxBuild(key, depthID, ids, coll) ==
  LET loc(e) == GetRangeLocationMetaDataBox(At(coll, e))
      doesDivide == Cardinality(ids) > MaxElementNo /\ depthID < MaxDepthID
      stucked == IF doesDivide THEN {e \in ids : loc(e).DepthID = depthID} ELSE ids
      childOf(e) == ChildIDBelow(loc(e).LocID, depthID)
      childIDs == {childOf(e) : e \in ids \ stucked}
  IN MergeNodes(key :> [ents |-> SetToSeq(stucked), children |-> childIDs],
                {BoxBuild(GetChildNodeKey(key, c), depthID + 1,
                          {e \in (ids \ stucked) : childOf(e) = c}, coll) : c \in childIDs})

\* BuildSubtree with ProcessNodeWithSplitEntities: fromParent are the
\* entities of the parent split into this node's segment.
RECURSIVE BoxBuildSplit(_, _, _, _, _)
BoxBuildSplit(key, depthID, ids, fromParent, coll) ==
  LET loc(e) == GetRangeLocationMetaDataBox(At(coll, e))
      isLeafNode == depthID = MaxDepthID
                    \/ Cardinality(ids) + Cardinality(fromParent) <= MaxElementNo
      stucked == IF isLeafNode THEN ids ELSE {e \in ids : loc(e).DepthID = depthID}
      nonSplittable ==
        IF isLeafNode THEN ids
        ELSE {e \in stucked : IsAllChildTouched(loc(e).TouchedDimensionsFlag)}
      splitEntities == stucked \ nonSplittable
      segmentsOf(e) == Range(GetSplitChildSegments(loc(e)))
      childOf(e) == ChildIDBelow(loc(e).LocID, depthID)
      childIDs == {childOf(e) : e \in ids \ stucked} \cup UNION {segmentsOf(e) : e \in splitEntities}
  IN MergeNodes(key :> [ents |-> SetToSeq(fromParent) \o SetToSeq(nonSplittable),
                        children |-> childIDs],
                {BoxBuildSplit(GetChildNodeKey(key, c), depthID + 1,
                               {e \in (ids \ stucked) : childOf(e) = c},
                               {e \in splitEntities : c \in segmentsOf(e)}, coll) : c \in childIDs})

Create(coll) ==
  LET ids == {i - 1 : i \in DOMAIN coll}
  IN IF coll = <<>> THEN GetRootKey :> EmptyNode
     ELSE IF kind = "point" THEN PointBuild(GetRootKey, 0, ids, coll)
     ELSE IF split THEN BoxBuildSplit(GetRootKey, 0, ids, {}, coll)
     ELSE BoxBuild(GetRootKey, 0, ids, coll)

\* Create with IS_PARALLEL_EXEC: the locations are sorted and the ranges of
\* the nodes are cut with std::partition_point.  locs is the range of a
\* node: entity ids in the order of the sorted locations.

\* SI::IsLess of two range metadata; with the deeper first, the mutation of it.
IsLessDeeperFirst(leftLocation, rightLocation) ==
  \/ leftLocation.LocID < rightLocation.LocID
  \/ leftLocation.LocID = rightLocation.LocID /\ leftLocation.DepthID > rightLocation.DepthID
IsLess(leftLocation, rightLocation) ==
  \/ leftLocation.LocID < rightLocation.LocID
  \/ leftLocation.LocID = rightLocation.LocID /\ leftLocation.DepthID < rightLocation.DepthID

\* The comparator of the sort only; with LocID alone, the mutation of it.
IsLessLocID(l, r) == l.LocID < r.LocID
IsLessLocation(l, r) ==
  IF kind = "point" THEN l.LocID < r.LocID
  ELSE IF l.LocID = r.LocID THEN l.DepthID < r.DepthID
  ELSE l.LocID < r.LocID

\* The orders std::sort may leave the ids of the container in: locations
\* that compare equal come in any order.
SortedOrders(coll) ==
  LET ids == {i - 1 : i \in DOMAIN coll}
  IN {order \in [DOMAIN coll -> ids] :
        /\ \A i, j \in DOMAIN coll : i # j => order[i] # order[j]
        /\ \A i, j \in DOMAIN coll :
             i < j => ~IsLessLocation(LocationOf(At(coll, order[j])), LocationOf(At(coll, order[i])))}

\* std::partition_point by bisection; flags[i] is the predicate on the
\* i-th element of the range.  Yields the number of elements before the
\* partition point.
RECURSIVE PartitionPointFrom(_, _, _)
PartitionPointFrom(flags, first, len) ==
  IF len = 0 THEN first
  ELSE LET half == len \div 2
           middle == first + half
       IN IF flags[middle + 1] THEN PartitionPointFrom(flags, middle + 1, len - half - 1)
          ELSE PartitionPointFrom(flags, first, half)
PartitionPoint(flags) == PartitionPointFrom(flags, 0, Len(flags))

\* The range of the child the first location of locs leads to.
ChildRangeNo(locs, depthID, coll) ==
  LET childOf(e) == ChildIDBelow(LocationOf(At(coll, e)).LocID, depthID)
  IN PartitionPoint([i \in DOMAIN locs |-> childOf(locs[i]) = childOf(locs[1])])
StuckedNo(locs, depthID, coll) ==
  PartitionPoint([i \in DOMAIN locs |-> LocationOf(At(coll, locs[i])).DepthID = depthID])

\* Build<true> of the point tree.
RECURSIVE PointBuildSorted(_, _, _, _)
RECURSIVE PointBuildSortedChildren(_, _, _, _, _)
PointBuildSortedChildren(key, depthID, locs, coll, ns) ==
  IF locs = <<>> THEN ns
  ELSE LET childID == ChildIDBelow(LocationOf(At(coll, locs[1])).LocID, depthID)
           n == ChildRangeNo(locs, depthID, coll)
           child == PointBuildSorted(GetChildNodeKey(key, childID), depthID + 1,
                                     SubSeq(locs, 1, n), coll)
       IN PointBuildSortedChildren(key, depthID, SubSeq(locs, n + 1, Len(locs)), coll,
                                   AddChild(ns, key, childID) @@ child)
PointBuildSorted(key, depthID, locs, coll) ==
  IF (0 < Len(locs) /\ Len(locs) <= MaxElementNo) \/ depthID = MaxDepthID
  THEN key :> [ents |-> locs, children |-> {}]
  ELSE PointBuildSortedChildren(key, depthID, locs, coll, key :> EmptyNode)

\* BuildSubtree<true> with ProcessNodeWithoutSplitEntities.
RECURSIVE BoxBuildSorted(_, _, _, _)
RECURSIVE BoxBuildSortedChildren(_, _, _, _, _)
BoxBuildSortedChildren(key, depthID, locs, coll, ns) ==
  IF locs = <<>> \/ depthID = MaxDepthID THEN ns
  ELSE LET childID == ChildIDBelow(LocationOf(At(coll, locs[1])).LocID, depthID)
           n == ChildRangeNo(locs, depthID, coll)
           child == BoxBuildSorted(GetChildNodeKey(key, childID), depthID + 1,
                                   SubSeq(locs, 1, n), coll)
       IN BoxBuildSortedChildren(key, depthID, SubSeq(locs, n + 1, Len(locs)), coll,
                                 AddChild(ns, key, childID) @@ child)
BoxBuildSorted(key, depthID, locs, coll) ==
  LET nodeEntityNo ==
        IF Len(locs) > MaxElementNo /\ depthID < MaxDepthID THEN StuckedNo(locs, depthID, coll)
        ELSE Len(locs)
  IN BoxBuildSortedChildren(key, depthID, SubSeq(locs, nodeEntityNo + 1, Len(locs)), coll,
                            key :> [ents |-> SubSeq(locs, 1, nodeEntityNo), children |-> {}])

\* SplitEntityLocation over the split entities of a node: the items
\* <<segment, entity>> in the order of TraverseSplitChildren.
RECURSIVE SplitItems(_, _)
SplitItems(splitEntities, coll) ==
  IF splitEntities = <<>> THEN <<>>
  ELSE LET segments == GetSplitChildSegments(LocationOf(At(coll, Head(splitEntities))))
       IN [i \in DOMAIN segments |-> <<segments[i], Head(splitEntities)>>]
          \o SplitItems(Tail(splitEntities), coll)

\* BuildSubtree<true> with ProcessNodeWithSplitEntities.
RECURSIVE BoxBuildSplitSorted(_, _, _, _, _)
RECURSIVE BoxBuildSplitSortedChildren(_, _, _, _, _, _)
BoxBuildSplitSortedChildren(key, depthID, locs, splitItems, coll, ns) ==
  IF (locs = <<>> /\ splitItems = <<>>) \/ depthID = MaxDepthID THEN ns
  ELSE LET childID == IF locs = <<>> THEN splitItems[1][1]
                      ELSE ChildIDBelow(LocationOf(At(coll, locs[1])).LocID, depthID)
           n == IF locs = <<>> THEN 0 ELSE ChildRangeNo(locs, depthID, coll)
           ofChild == SelectSeq(splitItems, LAMBDA item : item[1] = childID)
           others == SelectSeq(splitItems, LAMBDA item : item[1] # childID)
           child == BoxBuildSplitSorted(GetChildNodeKey(key, childID), depthID + 1,
                                        SubSeq(locs, 1, n),
                                        [i \in DOMAIN ofChild |-> ofChild[i][2]], coll)
       IN BoxBuildSplitSortedChildren(key, depthID, SubSeq(locs, n + 1, Len(locs)), others, coll,
                                      AddChild(ns, key, childID) @@ child)
BoxBuildSplitSorted(key, depthID, locs, fromParent, coll) ==
  LET isLeafNode == depthID = MaxDepthID \/ Len(locs) + Len(fromParent) <= MaxElementNo
      stuckedNo == IF isLeafNode THEN Len(locs) ELSE StuckedNo(locs, depthID, coll)
      stucked == SubSeq(locs, 1, stuckedNo)
      isNonSplittable(e) ==
        isLeafNode \/ IsAllChildTouched(LocationOf(At(coll, e)).TouchedDimensionsFlag)
      nonSplittable == SelectSeq(stucked, isNonSplittable)
      splitEntities == SelectSeq(stucked, LAMBDA e : ~isNonSplittable(e))
  IN BoxBuildSplitSortedChildren(key, depthID, SubSeq(locs, stuckedNo + 1, Len(locs)),
                                 SplitItems(splitEntities, coll), coll,
                                 key :> [ents |-> fromParent \o nonSplittable, children |-> {}])

CreateSorted(coll, order) ==
  IF coll = <<>> THEN GetRootKey :> EmptyNode
  ELSE IF kind = "point" THEN PointBuildSorted(GetRootKey, 0, order, coll)
  ELSE IF split THEN BoxBuildSplitSorted(GetRootKey, 0, order, <<>>, coll)
  ELSE BoxBuildSorted(GetRootKey, 0, order, coll)

---------------------------------------------------------------------------
\* The editing functions of the two trees.  Each yields the node store
\* after the call and the value returned.

Done(ns, ok) == [ns |-> ns, ok |-> ok]

PointInsertWithRebalancing(ns, e, p, coll) ==
  IF ~DoesBoxContainPointAD(BoxSpace, p) THEN Done(ns, FALSE)
  ELSE LET entityLocation == GetRangeLocationMetaDataPoint(p)
           parentKey == FindSmallestNodeKey(ns, GetHash(MaxDepthID, entityLocation.LocID))
       IN IF ~IsValidKey(parentKey) THEN Done(ns, FALSE)
          ELSE Done(InsertWithRebalancingBase(ns, parentKey, GetDepthID(parentKey), FALSE,
                                              entityLocation, e, coll), TRUE)

\* The node a successful InsertWithRebalancing of geometry g takes to the
\* FullRebalancing case, if it does.
RebalancedNodes(ns, g) ==
  LET entityLocation == LocationOf(g)
      parentKey == FindSmallestNodeKey(
                     ns, IF kind = "point" THEN GetHash(MaxDepthID, entityLocation.LocID)
                         ELSE GetHashAtDepth(entityLocation, MaxDepthID))
  IN IF ControlFlow(ns, parentKey, GetDepthID(parentKey), kind = "box" /\ split,
                    entityLocation) = "FullRebalancing"
     THEN <<parentKey>> ELSE <<>>

PointInsert(ns, e, p, doInsertToLeaf) ==
  IF ~DoesBoxContainPointAD(BoxSpace, p) THEN Done(ns, FALSE)
  ELSE LET entityNodeKey == GetHash(MaxDepthID, Encode(GetPointGridID(p)))
           smallestNodeKey == FindSmallestNodeKey(ns, entityNodeKey)
       IN IF ~IsValidKey(smallestNodeKey) THEN Done(ns, FALSE)
          ELSE Done(InsertWithoutRebalancingBase(ns, smallestNodeKey, entityNodeKey, e, doInsertToLeaf), TRUE)

BoxInsertWithRebalancing(ns, e, box, coll) ==
  IF ~DoesRangeContainBoxAD(BoxSpace, box) THEN Done(ns, FALSE)
  ELSE LET entityLocation == GetRangeLocationMetaDataBox(box)
           parentKey == FindSmallestNodeKey(ns, GetHashAtDepth(entityLocation, MaxDepthID))
       IN Done(InsertWithRebalancingBase(ns, parentKey, GetDepthID(parentKey), split,
                                         entityLocation, e, coll), TRUE)

\* The loop of Insert over the split child segments, from segment index i.
RECURSIVE BoxInsertToSplitChildren(_, _, _, _, _, _)
BoxInsertToSplitChildren(ns, smallestNodeKey, naturalKey, segments, e, i) ==
  IF i > Len(segments) THEN ns
  ELSE BoxInsertToSplitChildren(
         InsertWithoutRebalancingBase(ns, smallestNodeKey,
                                      GetChildNodeKey(naturalKey, segments[i]), e, TRUE),
         smallestNodeKey, naturalKey, segments, e, i + 1)

BoxInsert(ns, e, box, doInsertToLeaf) ==
  IF ~DoesRangeContainBoxAD(BoxSpace, box) THEN Done(ns, FALSE)
  ELSE LET location == GetRangeLocationMetaDataBox(box)
           entityNodeKey == GetHashAtDepth(location, MaxDepthID)
           smallestNodeKey == FindSmallestNodeKey(ns, entityNodeKey)
           shoudlCreateChildrenOnly == location.DepthID # MaxDepthID /\ doInsertToLeaf /\ split
       IN IF ~IsValidKey(smallestNodeKey) THEN Done(ns, FALSE)
          ELSE IF shoudlCreateChildrenOnly
          THEN Done(BoxInsertToSplitChildren(ns, smallestNodeKey, entityNodeKey,
                                             GetSplitChildSegments(location), e, 1), TRUE)
          ELSE Done(InsertWithoutRebalancingBase(ns, smallestNodeKey, entityNodeKey, e, doInsertToLeaf), TRUE)

\* RemoveNodeIfPossible on each of the given nodes, in ascending key order.
RECURSIVE RemoveNodesIfPossible(_, _)
RemoveNodesIfPossible(ns, keys) ==
  IF keys = <<>> THEN ns
  ELSE RemoveNodesIfPossible(RemoveNodeIfPossible(ns, Head(keys)), Tail(keys))

RECURSIVE RemoveEntityFromNodes(_, _, _)
RemoveEntityFromNodes(ns, keys, e) ==
  IF keys = <<>> THEN ns
  ELSE RemoveEntityFromNodes(RemoveNodeEntity(ns, Head(keys), e), Tail(keys), e)

EraseEntityBase(ns, e, isEntityInMultipleNode, doUpdateEntityIDs) ==
  LET holders == SetToSeq(NodesOf(ns, e))
      erasable == IF isEntityInMultipleNode THEN holders ELSE SubSeq(holders, 1, 1)
      removed == RemoveNodesIfPossible(RemoveEntityFromNodes(ns, erasable, e), erasable)
  IN IF holders = <<>> THEN Done(ns, FALSE)
     ELSE Done(IF doUpdateEntityIDs THEN DecreaseEntityIDs(removed, e) ELSE removed, TRUE)

PointEraseEntity(ns, e, doUpdateEntityIDs) == EraseEntityBase(ns, e, FALSE, doUpdateEntityIDs)

\* The DO_UPDATE_ENTITY_IDS argument is not handed on to EraseEntityBase.
BoxEraseEntity(ns, e, doUpdateEntityIDs) == EraseEntityBase(ns, e, split, FALSE)

\* PointErase without the test that the node holds the entity.
PointEraseWithoutFind(ns, e, p, doUpdateEntityIDs) ==
  LET nodeKey == FindSmallestNode(ns, p)
  IN IF ~IsValidKey(nodeKey) THEN Done(ns, FALSE)
     ELSE LET removed == RemoveNodeEntity(ns, nodeKey, e)
              renumbered == IF doUpdateEntityIDs THEN DecreaseEntityIDs(removed, e) ELSE removed
          IN Done(RemoveNodeIfPossible(renumbered, nodeKey), TRUE)

PointErase(ns, e, p, doUpdateEntityIDs) ==
  LET nodeKey == FindSmallestNode(ns, p)
  IN IF ~IsValidKey(nodeKey) THEN Done(ns, FALSE)
     ELSE IF e \notin Range(ns[nodeKey].ents) THEN Done(ns, FALSE)
     ELSE LET removed == RemoveNodeEntity(ns, nodeKey, e)
              renumbered == IF doUpdateEntityIDs THEN DecreaseEntityIDs(removed, e) ELSE removed
          IN Done(RemoveNodeIfPossible(renumbered, nodeKey), TRUE)

RECURSIVE DoEraseRec(_, _, _, _)
RECURSIVE DoEraseRecChildren(_, _, _, _)
DoEraseRecChildren(r, childKeys, e, remainingDepth) ==
  IF childKeys = <<>> THEN r
  ELSE LET c == DoEraseRec(r.ns, Head(childKeys), e, remainingDepth)
       IN DoEraseRecChildren(Done(c.ns, r.ok \/ c.ok), Tail(childKeys), e, remainingDepth)

DoEraseRec(ns, nodeKey, e, remainingDepth) ==
  LET own == Done(RemoveNodeEntity(ns, nodeKey, e), e \in Range(ns[nodeKey].ents))
      childKeys == [i \in DOMAIN SetToSeq(ns[nodeKey].children) |->
                      GetChildNodeKey(nodeKey, SetToSeq(ns[nodeKey].children)[i])]
      below == IF remainingDepth > 0
               THEN DoEraseRecChildren(own, childKeys, e, remainingDepth - 1)
               ELSE own
  IN Done(RemoveNodeIfPossible(below.ns, nodeKey), below.ok)

BoxErase(ns, e, box, doUpdateEntityIDs) ==
  LET smallestNodeKey == FindSmallestNode(ns, box)
      erased == DoEraseRec(ns, smallestNodeKey, e, IF split THEN 1 ELSE 0)
  IN IF ~IsValidKey(smallestNodeKey) THEN Done(ns, FALSE)
     ELSE IF ~erased.ok THEN Done(erased.ns, FALSE)
     ELSE Done(IF doUpdateEntityIDs THEN DecreaseEntityIDs(erased.ns, e) ELSE erased.ns, TRUE)

\* Update: the four overloads of each tree (erase by id or by the old
\* geometry, then Insert or InsertWithRebalancing).
PointUpdate(ns, e, newPoint, doesInsertToLeaf) ==
  LET erased == PointEraseEntity(ns, e, FALSE)
  IN IF ~DoesBoxContainPointAD(BoxSpace, newPoint) THEN Done(ns, FALSE)
     ELSE IF ~erased.ok THEN Done(erased.ns, FALSE)
     ELSE PointInsert(erased.ns, e, newPoint, doesInsertToLeaf)

PointUpdateOld(ns, e, oldPoint, newPoint, doesInsertToLeaf) ==
  LET erased == PointErase(ns, e, oldPoint, FALSE)
  IN IF ~DoesBoxContainPointAD(BoxSpace, newPoint) THEN Done(ns, FALSE)
     ELSE IF ~erased.ok THEN Done(erased.ns, FALSE)
     ELSE PointInsert(erased.ns, e, newPoint, doesInsertToLeaf)

PointUpdateRebalancing(ns, e, newPoint, coll) ==
  LET erased == PointEraseEntity(ns, e, FALSE)
  IN IF ~DoesBoxContainPointAD(BoxSpace, newPoint) THEN Done(ns, FALSE)
     ELSE IF ~erased.ok THEN Done(erased.ns, FALSE)
     ELSE PointInsertWithRebalancing(erased.ns, e, newPoint, coll)

PointUpdateOldRebalancing(ns, e, oldPoint, newPoint, coll) ==
  LET erased == PointErase(ns, e, oldPoint, FALSE)
  IN IF ~DoesBoxContainPointAD(BoxSpace, newPoint) THEN Done(ns, FALSE)
     ELSE IF ~erased.ok THEN Done(erased.ns, FALSE)
     ELSE PointInsertWithRebalancing(erased.ns, e, newPoint, coll)

\* BoxUpdate with the erase made before the test of the new box.
BoxUpdateEraseFirst(ns, e, boxNew, doInsertToLeaf) ==
  LET erased == BoxEraseEntity(ns, e, FALSE)
  IN IF ~erased.ok THEN Done(erased.ns, FALSE)
     ELSE BoxInsert(erased.ns, e, boxNew, doInsertToLeaf)

BoxUpdate(ns, e, boxNew, doInsertToLeaf) ==
  LET erased == BoxEraseEntity(ns, e, FALSE)
  IN IF ~DoesRangeContainBoxAD(BoxSpace, boxNew) THEN Done(ns, FALSE)
     ELSE IF ~erased.ok THEN Done(erased.ns, FALSE)
     ELSE BoxInsert(erased.ns, e, boxNew, doInsertToLeaf)

BoxUpdateOld(ns, e, oldBox, newBox, doInsertToLeaf) ==
  LET erased == BoxErase(ns, e, oldBox, FALSE)
  IN IF ~DoesRangeContainBoxAD(BoxSpace, newBox) THEN Done(ns, FALSE)
     ELSE IF ~split /\ FindSmallestNode(ns, oldBox) = FindSmallestNode(ns, newBox) THEN Done(ns, TRUE)
     ELSE IF ~erased.ok THEN Done(erased.ns, FALSE)
     ELSE BoxInsert(erased.ns, e, newBox, doInsertToLeaf)

BoxUpdateRebalancing(ns, e, boxNew, coll) ==
  LET erased == BoxEraseEntity(ns, e, FALSE)
  IN IF ~DoesRangeContainBoxAD(BoxSpace, boxNew) THEN Done(ns, FALSE)
     ELSE IF ~erased.ok THEN Done(erased.ns, FALSE)
     ELSE BoxInsertWithRebalancing(erased.ns, e, boxNew, coll)

BoxUpdateOldRebalancing(ns, e, oldBox, newBox, coll) ==
  LET erased == BoxErase(ns, e, oldBox, FALSE)
  IN IF ~DoesRangeContainBoxAD(BoxSpace, newBox) THEN Done(ns, FALSE)
     ELSE IF ~split /\ FindSmallestNode(ns, oldBox) = FindSmallestNode(ns, newBox) THEN Done(ns, TRUE)
     ELSE IF ~erased.ok THEN Done(erased.ns, FALSE)
     ELSE BoxInsertWithRebalancing(erased.ns, e, newBox, coll)

---------------------------------------------------------------------------
\* Range search.

\* SI::Decode: grid id, at the resolution of the deepest level, of the
\* minimum corner of the node of a key.
RECURSIVE GatherBits(_)
GatherBits(v) == IF v = 0 THEN 0 ELSE (v % 2) + 2 * GatherBits(v \div CHILD_NO)
Decode(key, maxDepthID) ==
  LET depthID == GetDepthID(key)
      locationID == ShiftL(key - ShiftL(1, depthID * DIMENSION_NO),
                           (maxDepthID - depthID) * DIMENSION_NO)
  IN [d \in Dims |-> GatherBits(ShiftR(locationID, d - 1))]

CalculateGridCellCenter(gridID, centerLevel) ==
  [d \in Dims |->
     ((2 * gridID[d] + Pow2(centerLevel)) * (BoxSpace.Max[d] - BoxSpace.Min[d]))
        \div (2 * maxRasterResolution) + BoxSpace.Min[d]]
CalculateNodeCenter(key) ==
  CalculateGridCellCenter(Decode(key, MaxDepthID), MaxDepthID - GetDepthID(key))

\* Size of the nodes of a depth; depth MaxDepthID + 1 gives the half size
\* of the deepest nodes.
GetNodeSize(depthID) == [d \in Dims |-> nodeSizes[depthID + 1][d] \div SizeUnit]
GetNodeBox(depthID, center) ==
  [Min |-> [d \in Dims |-> center[d] - GetNodeSize(depthID + 1)[d]],
   Max |-> [d \in Dims |-> center[d] + GetNodeSize(depthID + 1)[d]]]

RECURSIVE GetBoxRelationFrom(_, _, _, _)
GetBoxRelationFrom(e1, e2, d, isAdjecent) ==
  IF d > DIMENSION_NO THEN (IF isAdjecent THEN "Adjecent" ELSE "Overlapped")
  ELSE IF e1.Min[d] < e2.Max[d] /\ e1.Max[d] > e2.Min[d]
       THEN GetBoxRelationFrom(e1, e2, d + 1, isAdjecent)
       ELSE IF e1.Min[d] = e2.Max[d] \/ e1.Max[d] = e2.Min[d]
            THEN GetBoxRelationFrom(e1, e2, d + 1, TRUE)
            ELSE IF e1.Min[d] > e2.Max[d] \/ e1.Max[d] < e2.Min[d]
                 THEN "Separated"
                 ELSE GetBoxRelationFrom(e1, e2, d + 1, isAdjecent)
GetBoxRelation(e1, e2) == GetBoxRelationFrom(e1, e2, 1, FALSE)
AreBoxesOverlappedStrict(e1, e2) == GetBoxRelation(e1, e2) = "Overlapped"
AreBoxesOverlapped(e1, e2, e1_must_contain_e2) ==
  IF e1_must_contain_e2
  THEN \A d \in Dims :
         /\ ~(e1.Min[d] > e2.Min[d] \/ e2.Min[d] > e1.Max[d])
         /\ ~(e1.Min[d] > e2.Max[d] \/ e2.Max[d] > e1.Max[d])
  ELSE GetBoxRelation(e1, e2) = "Overlapped"

RECURSIVE GetVolumeFrom(_, _)
GetVolumeFrom(range, d) ==
  IF d > DIMENSION_NO THEN 1 ELSE (range.Max[d] - range.Min[d]) * GetVolumeFrom(range, d + 1)
GetVolumeAD(range) == GetVolumeFrom(range, 1)

RangeSearchBaseCopy(ns, coll, range, key, doRangeMustFullyContain) ==
  LET isEntityInRange(entityID) ==
        IF kind = "box"
        THEN IF doRangeMustFullyContain
             THEN AreBoxesOverlapped(range, At(coll, entityID), doRangeMustFullyContain)
             ELSE AreBoxesOverlappedStrict(range, At(coll, entityID))
        ELSE DoesBoxContainPointAD(range, At(coll, entityID))
  IN SelectSeq(ns[key].ents, isEntityInRange)

\* The concatenation of f(c) over the children cs of a node, in the order
\* of GetChildren.
RECURSIVE Flatten(_)
Flatten(seqs) == IF seqs = <<>> THEN <<>> ELSE Head(seqs) \o Flatten(Tail(seqs))
ConcatOver(cs, f(_)) == Flatten([i \in DOMAIN cs |-> f(cs[i])])

GetChildren(ns, key) ==
  LET ids == SetToSeq(ns[key].children)
  IN [i \in DOMAIN ids |-> GetChildNodeKey(key, ids[i])]

RECURSIVE CollectAllEntitiesInDFSRecursive(_, _)
CollectAllEntitiesInDFSRecursive(ns, key) ==
  LET below(childKey) == CollectAllEntitiesInDFSRecursive(ns, childKey)
  IN ns[key].ents \o ConcatOver(GetChildren(ns, key), below)

\* The bit of dimension d is set when the centre is not above the corner.
RECURSIVE SegmentFlagFrom(_, _, _)
SegmentFlagFrom(center, corner, d) ==
  IF d > DIMENSION_NO THEN 0
  ELSE (IF center[d] <= corner[d] THEN Pow2(d - 1) ELSE 0) + SegmentFlagFrom(center, corner, d + 1)
GetRelativeMinMaxLocation(center, range) ==
  [minSegmentFlag |-> SegmentFlagFrom(center, range.Min, 1),
   maxSegmentFlag |-> SegmentFlagFrom(center, range.Max, 1)]

RECURSIVE RangeSearchBase(_, _, _, _, _, _)
RangeSearchBase(ns, coll, range, depthID, currentNodeKey, doRangeMustFullyContain) ==
  LET center == CalculateNodeCenter(currentNodeKey)
      segments == GetRelativeMinMaxLocation(center, range)
      limitedDimensionsMask ==
        CHILD_MASK - BitAnd(BitXor(segments.minSegmentFlag, segments.maxSegmentFlag), CHILD_MASK)
      dimensionBoundaries ==
        BitAnd(BitAnd(segments.minSegmentFlag, segments.maxSegmentFlag), limitedDimensionsMask)
      own == RangeSearchBaseCopy(ns, coll, range, currentNodeKey, doRangeMustFullyContain)
      below(keyChild) ==
        IF BitAnd(keyChild, limitedDimensionsMask) = dimensionBoundaries
        THEN RangeSearchBase(ns, coll, range, depthID + 1, keyChild, doRangeMustFullyContain)
        ELSE <<>>
  IN IF ~IsAnyChildExist(ns, currentNodeKey) THEN own
     ELSE IF limitedDimensionsMask = 0 /\ DoesRangeContainBoxAD(range, GetNodeBox(depthID, center))
     THEN CollectAllEntitiesInDFSRecursive(ns, currentNodeKey)
     ELSE own \o ConcatOver(GetChildren(ns, currentNodeKey), below)

\* RangeSearchBaseCopy on the ancestors of a node, from its parent up.
RECURSIVE RangeSearchUpwards(_, _, _, _, _)
RangeSearchUpwards(ns, coll, range, key, doRangeMustFullyContain) ==
  IF ~IsValidKey(key) THEN <<>>
  ELSE RangeSearchBaseCopy(ns, coll, range, key, doRangeMustFullyContain)
       \o RangeSearchUpwards(ns, coll, range, GetParentKey(key), doRangeMustFullyContain)

\* GetNodeID<!IS_BOX_TYPE>(range): point-like in the point tree.
GetRangeNodeID(range, ub) ==
  GetHashAtDepth(
    GetRangeLocationMetaDataOfIDs(
      MaxDepthID,
      GetRangeLocationID(IF kind = "point" THEN GetBoxGridIDPointLike(range, ub)
                         ELSE GetBoxGridID(range))),
    MaxDepthID)

\* Found entities of RangeSearchBaseRoot with
\* DOES_LEAF_NODE_CONTAIN_ELEMENT_ONLY = false.
RangeSearchBaseRoot(ns, coll, range, doRangeMustFullyContain, ub) ==
  LET smallestNodeKey == FindSmallestNodeKey(ns, GetRangeNodeID(range, ub))
  IN IF DoesRangeContainBoxAD(range, BoxSpace) THEN [i \in 1..Len(coll) |-> i - 1]
     ELSE IF GetVolumeAD(range) <= 0 THEN <<>>
     ELSE IF ~IsValidKey(smallestNodeKey) THEN <<>>
     ELSE RangeSearchBase(ns, coll, range, GetDepthID(smallestNodeKey), smallestNodeKey,
                          doRangeMustFullyContain)
          \o RangeSearchUpwards(ns, coll, range, GetParentKey(smallestNodeKey),
                                doRangeMustFullyContain)

\* detail::sortAndUnique
SortAndUnique(found) == SetToSeq(Range(found))

PointRangeSearch(ns, coll, range, ub) == RangeSearchBaseRoot(ns, coll, range, FALSE, ub)
BoxRangeSearch(ns, coll, range, doMustFullyContain) ==
  LET foundEntities == RangeSearchBaseRoot(ns, coll, range, doMustFullyContain, 0)
  IN IF split THEN SortAndUnique(foundEntities) ELSE foundEntities

---------------------------------------------------------------------------
\* Pick search (box tree).

\* Whether child keyChild is on the side of the centre, in dimension d,
\* that the loop over the dimensions does not pass over.
IsPickSideKept(keyChild, centerPoint, pickPoint, d) ==
  IF BitAnd(keyChild, Pow2(d - 1)) = 0
  THEN ~(centerPoint[d] < pickPoint[d])
  ELSE ~(centerPoint[d] > pickPoint[d])

RECURSIVE PickSearchRecursive(_, _, _, _)
PickSearchRecursive(ns, coll, pickPoint, parentKey) ==
  LET contains(entityID) == DoesBoxContainPointAD(At(coll, entityID), pickPoint)
      own == SelectSeq(ns[parentKey].ents, contains)
      centerPoint == CalculateNodeCenter(parentKey)
      children == GetChildren(ns, parentKey)
      \* the flag after the loop over the dimensions for the first child;
      \* the later children leave it as it is
      isPickPointInCenter ==
        \A d \in Dims :
          IsPickSideKept(children[1], centerPoint, pickPoint, d) => centerPoint[d] = pickPoint[d]
      below(keyChild) == PickSearchRecursive(ns, coll, pickPoint, keyChild)
  IN IF children = <<>> THEN own
     ELSE IF isPickPointInCenter THEN own \o ConcatOver(children, below)
     ELSE own \o below(children[1])

\* The copy_if over the existing nodes from nodeKey up to the root.
RECURSIVE PickSearchUpwards(_, _, _, _)
PickSearchUpwards(ns, coll, pickPoint, nodeKey) ==
  LET contains(entityID) == DoesBoxContainPointAD(At(coll, entityID), pickPoint)
  IN IF ~IsValidKey(nodeKey) THEN <<>>
     ELSE (IF nodeKey \in DOMAIN ns THEN SelectSeq(ns[nodeKey].ents, contains) ELSE <<>>)
          \o PickSearchUpwards(ns, coll, pickPoint, GetParentKey(nodeKey))

PickSearch(ns, coll, pickPoint) ==
  LET rangeLocationID == GetRangeLocationID(GetEdgePointGridID(pickPoint))
      rangeKey == GetHashAtDepth(GetRangeLocationMetaDataOfIDs(MaxDepthID, rangeLocationID), MaxDepthID)
      smallest == FindSmallestNodeKey(ns, rangeKey)
  IN IF ~DoesBoxContainPointAD(BoxSpace, pickPoint) THEN <<>>
     ELSE IF rangeLocationID[1] # rangeLocationID[2]
     THEN (IF smallest \in DOMAIN ns THEN PickSearchRecursive(ns, coll, pickPoint, smallest) ELSE <<>>)
          \o PickSearchUpwards(ns, coll, pickPoint, GetParentKey(smallest))
     ELSE PickSearchUpwards(ns, coll, pickPoint, GetHash(MaxDepthID, rangeLocationID[1]))

---------------------------------------------------------------------------
\* Nearest neighbours (point tree).  Distances are kept as their squares,
\* which leaves every comparison the code makes as it is.

Square(v) == v * v
Abs(v) == IF v < 0 THEN -v ELSE v
RECURSIVE SumSquares(_, _)
SumSquares(v, d) == IF d > DIMENSION_NO THEN 0 ELSE Square(v[d]) + SumSquares(v, d + 1)
Distance2(p, q) == SumSquares([d \in Dims |-> p[d] - q[d]], 1)

RECURSIVE MinOver(_, _)
MinOver(v, d) == IF d = DIMENSION_NO THEN v[d] ELSE Min2(v[d], MinOver(v, d + 1))

GetBoxWallDistanceAD(searchPoint, centerPoint, halfSize, isInsideConsideredAsZero) ==
  LET centerDistance == [d \in Dims |-> Abs(centerPoint[d] - searchPoint[d])]
      isInside == \A d \in Dims : centerDistance[d] <= halfSize[d]
  IN IF isInside
     THEN IF isInsideConsideredAsZero THEN 0
          ELSE Square(MinOver([d \in Dims |-> halfSize[d] - centerDistance[d]], 1))
     ELSE SumSquares([d \in Dims |-> Max2(0, centerDistance[d] - halfSize[d])], 1)

GetNodeWallDistance(searchPoint, key, isInsideConsideredAsZero) ==
  GetBoxWallDistanceAD(searchPoint, CalculateNodeCenter(key), GetNodeSize(GetDepthID(key) + 1),
                       isInsideConsideredAsZero)

\* EntityDistance: ordered by distance and then by entity id.
IsLessDistance(a, b) == a[1] < b[1] \/ (a[1] = b[1] /\ a[2] < b[2])
HeapFront(neighborEntities) ==
  CHOOSE a \in neighborEntities : \A b \in neighborEntities : b = a \/ IsLessDistance(b, a)

\* size < neighborNo - 1 in std::size_t: for neighborNo = 0 the right side
\* wraps to the greatest value of the type, which no size reaches.
IsBelowMinusOne(size, neighborNo) == neighborNo = 0 \/ size < neighborNo - 1

\* State of the search: the neighbours found and the distance bound.
RECURSIVE AddEntityDistance(_, _, _, _, _)
AddEntityDistance(entities, searchPoint, coll, neighborNo, st) ==
  IF entities = <<>> THEN st
  ELSE
    LET entry == <<Distance2(searchPoint, At(coll, Head(entities))), Head(entities)>>
        size == Cardinality(st.found)
        kept == IF size < neighborNo THEN st.found ELSE st.found \ {HeapFront(st.found)}
        pushed == kept \cup {entry}
        next ==
          IF entry[1] >= st.maxDistanceWithin THEN st
          ELSE IF IsBelowMinusOne(size, neighborNo)
               THEN [st EXCEPT !.found = @ \cup {entry}]
               ELSE [found |-> pushed, maxDistanceWithin |-> HeapFront(pushed)[1]]
    IN AddEntityDistance(Tail(entities), searchPoint, coll, neighborNo, next)

\* The entries in ascending order.
RECURSIVE SortedEntries(_)
SortedEntries(entries) ==
  IF entries = {} THEN <<>>
  ELSE LET least == CHOOSE a \in entries : \A b \in entries : b = a \/ IsLessDistance(a, b)
       IN <<least>> \o SortedEntries(entries \ {least})

\* The children the editor hands on: those not farther than the bound,
\* in ascending order of wall distance (children of equal distance in the
\* order of GetChildren).
RECURSIVE InsertByDistance(_, _)
InsertByDistance(sorted, item) ==
  IF sorted = <<>> THEN <<item>>
  ELSE IF item[2] < Head(sorted)[2] THEN <<item>> \o sorted
  ELSE <<Head(sorted)>> \o InsertByDistance(Tail(sorted), item)
RECURSIVE SortByDistance(_)
SortByDistance(items) ==
  IF items = <<>> THEN <<>>
  ELSE InsertByDistance(SortByDistance(SubSeq(items, 1, Len(items) - 1)), items[Len(items)])
ChildrenByDistance(ns, key, searchPoint, farestEntityDistance) ==
  LET children == GetChildren(ns, key)
      withDistance == [i \in DOMAIN children |->
                         <<children[i], GetNodeWallDistance(searchPoint, children[i], TRUE)>>]
      isNear(item) == ~(item[2] > farestEntityDistance)
  IN SortByDistance(SelectSeq(withDistance, isNear))

RECURSIVE VisitNodesInDFSWithChildrenEdit(_, _, _, _, _, _, _, _)
RECURSIVE VisitChildren(_, _, _, _, _, _, _, _)
VisitChildren(ns, coll, searchPoint, neighborNo, nodeKey, prevNodeKey, childrenDistance, st) ==
  IF childrenDistance = <<>> THEN st
  ELSE VisitChildren(ns, coll, searchPoint, neighborNo, nodeKey, prevNodeKey, Tail(childrenDistance),
                     VisitNodesInDFSWithChildrenEdit(ns, coll, searchPoint, neighborNo, nodeKey,
                                                     prevNodeKey, Head(childrenDistance), st))

\* nodeDistance is <<key, wall distance>> of the node visited.
VisitNodesInDFSWithChildrenEdit(ns, coll, searchPoint, neighborNo, nodeKey, prevNodeKey, nodeDistance, st) ==
  LET childNodeKey == nodeDistance[1]
      added == IF childNodeKey = nodeKey THEN st
               ELSE AddEntityDistance(ns[childNodeKey].ents, searchPoint, coll, neighborNo, st)
  IN IF childNodeKey # nodeKey
        /\ (childNodeKey = prevNodeKey \/ nodeDistance[2] > st.maxDistanceWithin)
     THEN st
     ELSE VisitChildren(ns, coll, searchPoint, neighborNo, nodeKey, prevNodeKey,
                        ChildrenByDistance(ns, childNodeKey, searchPoint, added.maxDistanceWithin),
                        added)

\* The parent checks: the entities of the smallest node and of its ancestors.
RECURSIVE AddEntityDistanceUpwards(_, _, _, _, _, _)
AddEntityDistanceUpwards(ns, coll, searchPoint, neighborNo, nodeKey, st) ==
  IF ~IsValidKey(nodeKey) THEN st
  ELSE AddEntityDistanceUpwards(ns, coll, searchPoint, neighborNo, GetParentKey(nodeKey),
                                AddEntityDistance(ns[nodeKey].ents, searchPoint, coll, neighborNo, st))

\* The search in the smallest node, then in its ancestors, each without
\* the subtree seen before.
RECURSIVE SearchUpwards(_, _, _, _, _, _, _)
SearchUpwards(ns, coll, searchPoint, neighborNo, nodeKey, prevNodeKey, st) ==
  IF ~IsValidKey(nodeKey) THEN st
  ELSE LET wallDistance == GetNodeWallDistance(searchPoint, nodeKey, FALSE)
           visited == VisitNodesInDFSWithChildrenEdit(ns, coll, searchPoint, neighborNo, nodeKey,
                                                      prevNodeKey, <<nodeKey, wallDistance>>, st)
       IN IF visited.maxDistanceWithin < wallDistance THEN visited
          ELSE SearchUpwards(ns, coll, searchPoint, neighborNo, GetParentKey(nodeKey), nodeKey, visited)

\* GetPointGridID<true>: a point below the world box counts as on its side.
GetPointGridIDHandled(p) ==
  [d \in Dims |-> Min2(maxRasterID, Max2(0, RasterFloor(p[d], d)))]

\* The neighbours found by GetNearestNeighbors before they are listed.
NeighborEntities(ns, coll, searchPoint, neighborNo, maxDistanceWithin) ==
  LET found == FindSmallestNodeKey(ns, GetHash(MaxDepthID, Encode(GetPointGridIDHandled(searchPoint))))
      smallestNodeKey == IF IsValidKey(found) THEN found ELSE GetRootKey
      st0 == [found |-> {}, maxDistanceWithin |-> maxDistanceWithin]
      st1 == AddEntityDistanceUpwards(ns, coll, searchPoint, neighborNo, smallestNodeKey, st0)
  IN SearchUpwards(ns, coll, searchPoint, neighborNo, smallestNodeKey, GetNoneKey, st1).found

\* The orders ConvertEntityDistanceToList can list the neighbours in:
\* std::sort below neighborNo entries, std::sort_heap otherwise, which
\* sorts a heap and leaves any order of a range that is not one (the range
\* is a heap unless neighborNo = 0).
EntityOrders(neighborEntities, neighborNo) ==
  IF neighborNo = 0
  THEN {order \in [1..Cardinality(neighborEntities) -> neighborEntities] :
          \A a \in neighborEntities : \E i \in DOMAIN order : order[i] = a}
  ELSE {SortedEntries(neighborEntities)}
ConvertEntityDistanceToList(order) == [i \in DOMAIN order |-> order[i][2]]

GetNearestNeighbors(ns, coll, searchPoint, neighborNo, maxDistanceWithin) ==
  LET neighborEntities == NeighborEntities(ns, coll, searchPoint, neighborNo, maxDistanceWithin)
  IN {ConvertEntityDistanceToList(order) : order \in EntityOrders(neighborEntities, neighborNo)}

InsertUnique(ns, e, newPoint, tolerance, coll, doInsertToLeaf) ==
  LET entityLocation == GetRangeLocationMetaDataPoint(newPoint)
      entityNodeKey == GetHash(MaxDepthID, entityLocation.LocID)
      parentNodeKey == FindSmallestNodeKey(ns, entityNodeKey)
  IN IF ~DoesBoxContainPointAD(BoxSpace, newPoint) THEN Done(ns, FALSE)
     ELSE IF ~IsValidKey(parentNodeKey) THEN Done(ns, FALSE)
     ELSE IF GetNearestNeighbors(ns, coll, newPoint, 1, tolerance) # {<<>>} THEN Done(ns, FALSE)
     ELSE IF doInsertToLeaf
          THEN Done(InsertWithoutRebalancingBase(ns, parentNodeKey, entityNodeKey, e, TRUE), TRUE)
          ELSE Done(InsertWithRebalancingBase(ns, parentNodeKey, GetDepthID(parentNodeKey), FALSE,
                                              entityLocation, e, coll), TRUE)

---------------------------------------------------------------------------
\* Collision detection inside a box tree (the sequential execution).

\* The comparator of CollectCollidedEntities: by minimum x, then by id.
IsBeforeInSweep(coll, entityID1, entityID2) ==
  LET x1 == At(coll, entityID1).Min[1]
      x2 == At(coll, entityID2).Min[1]
  IN x1 < x2 \/ (x1 = x2 /\ entityID1 < entityID2)

\* The ids of a set in the order of the comparator (std::sort; with
\* inplaceMerge and std::unique on a sorted range the same list).
RECURSIVE SortedInSweep(_, _)
SortedInSweep(coll, ids) ==
  IF ids = {} THEN <<>>
  ELSE LET first == CHOOSE a \in ids : \A b \in ids \ {a} : IsBeforeInSweep(coll, a, b)
       IN <<first>> \o SortedInSweep(coll, ids \ {first})

\* Twice the centre and the size of a box; the comparison of
\* AreBoxesOverlappingByCenter is made on the doubled values.
GetBoxCenterAD2(box) == [d \in Dims |-> box.Min[d] + box.Max[d]]
GetBoxSizeAD(box) == [d \in Dims |-> box.Max[d] - box.Min[d]]
AreBoxesOverlappingByCenter(centerLhs, centerRhs2, sizeLhs, sizeRhs) ==
  \A d \in Dims : ~(sizeLhs[d] + sizeRhs[d] <= Abs(2 * centerLhs[d] - centerRhs2[d]))

\* The state the traversal threads: the entity list of the context of each
\* depth and the pairs collected so far.
NodeContextStack0 == [depthID \in 0..MaxDepthID |-> [Key |-> GetNoneKey, EntityIDs |-> <<>>]]

\* PrepareNodeCollisionContext without the move of the split entities to
\* the context of the parent.
PrepareNodeCollisionContextInPlace(ns, coll, depthID, nodeKey, stack) ==
  [stack EXCEPT ![depthID] = [Key |-> nodeKey,
                              EntityIDs |-> SortedInSweep(coll, Range(ns[nodeKey].ents))]]

PrepareNodeCollisionContext(ns, coll, depthID, nodeKey, stack) ==
  LET own == Range(ns[nodeKey].ents)
      moved == IF split /\ depthID > 0
               THEN {e \in own : GetRangeLocationMetaDataBox(At(coll, e)).DepthID < depthID}
               ELSE {}
      filled == [stack EXCEPT ![depthID] = [Key |-> nodeKey,
                                             EntityIDs |-> SortedInSweep(coll, own \ moved)]]
  IN IF split /\ depthID > 0
     THEN [filled EXCEPT ![depthID - 1].EntityIDs = SortedInSweep(coll, Range(@) \cup moved)]
     ELSE filled

\* Inner loop of InsertCollidedEntitiesInsideNode from index j on.
RECURSIVE CollideWithFollowing(_, _, _, _)
CollideWithFollowing(coll, entityIDs, i, j) ==
  IF j > Len(entityIDs) THEN <<>>
  ELSE IF At(coll, entityIDs[i]).Max[1] < At(coll, entityIDs[j]).Min[1] THEN <<>>
  ELSE (IF AreBoxesOverlappedStrict(At(coll, entityIDs[i]), At(coll, entityIDs[j]))
        THEN << <<entityIDs[i], entityIDs[j]>> >> ELSE <<>>)
       \o CollideWithFollowing(coll, entityIDs, i, j + 1)

InsertCollidedEntitiesInsideNode(coll, entityIDs) ==
  Flatten([i \in DOMAIN entityIDs |-> CollideWithFollowing(coll, entityIDs, i, i + 1)])

\* First index from iEntityBegin on whose box does not end before the
\* parent entity begins.
RECURSIVE AdvanceEntityBegin(_, _, _, _)
AdvanceEntityBegin(coll, entityIDs, parentEntityBox, iEntityBegin) ==
  IF iEntityBegin > Len(entityIDs) THEN iEntityBegin
  ELSE IF At(coll, entityIDs[iEntityBegin]).Max[1] >= parentEntityBox.Min[1] THEN iEntityBegin
  ELSE AdvanceEntityBegin(coll, entityIDs, parentEntityBox, iEntityBegin + 1)

RECURSIVE CollideWithParentEntity(_, _, _, _)
CollideWithParentEntity(coll, entityIDs, parentEntityID, iEntity) ==
  IF iEntity > Len(entityIDs) THEN <<>>
  ELSE IF At(coll, parentEntityID).Max[1] < At(coll, entityIDs[iEntity]).Min[1] THEN <<>>
  ELSE (IF AreBoxesOverlappedStrict(At(coll, entityIDs[iEntity]), At(coll, parentEntityID))
        THEN << <<entityIDs[iEntity], parentEntityID>> >> ELSE <<>>)
       \o CollideWithParentEntity(coll, entityIDs, parentEntityID, iEntity + 1)

\* The loop of InsertCollidedEntitiesWithParents over the entities of one
\* parent context, from its entity iParent on.
RECURSIVE CollideWithParentEntities(_, _, _, _, _, _, _)
CollideWithParentEntities(coll, depthID, nodeKey, entityIDs, parentEntityIDs, iParent, iEntityBegin) ==
  IF iParent > Len(parentEntityIDs) THEN <<>>
  ELSE LET parentEntityBox == At(coll, parentEntityIDs[iParent])
           nodeCenter == CalculateNodeCenter(nodeKey)
           begin == AdvanceEntityBegin(coll, entityIDs, parentEntityBox, iEntityBegin)
       IN IF parentEntityBox.Min[1] > GetNodeBox(depthID, nodeCenter).Max[1] THEN <<>>
          ELSE IF ~AreBoxesOverlappingByCenter(nodeCenter, GetBoxCenterAD2(parentEntityBox),
                                               GetNodeSize(depthID), GetBoxSizeAD(parentEntityBox))
          THEN CollideWithParentEntities(coll, depthID, nodeKey, entityIDs, parentEntityIDs,
                                         iParent + 1, iEntityBegin)
          ELSE CollideWithParentEntity(coll, entityIDs, parentEntityIDs[iParent], begin)
               \o CollideWithParentEntities(coll, depthID, nodeKey, entityIDs, parentEntityIDs,
                                            iParent + 1, begin)

InsertCollidedEntitiesWithParents(coll, depthID, stack) ==
  Flatten([parentDepthID1 \in 1..depthID |->
             CollideWithParentEntities(coll, depthID, stack[depthID].Key, stack[depthID].EntityIDs,
                                       stack[parentDepthID1 - 1].EntityIDs, 1, 1)])

RECURSIVE InsertCollidedEntitiesInSubtree(_, _, _, _, _)
RECURSIVE InsertCollidedEntitiesInChildren(_, _, _, _, _)
InsertCollidedEntitiesInChildren(ns, coll, childDepthID, childKeys, st) ==
  IF childKeys = <<>> THEN st
  ELSE InsertCollidedEntitiesInChildren(ns, coll, childDepthID, Tail(childKeys),
         InsertCollidedEntitiesInSubtree(ns, coll, childDepthID, Head(childKeys), st))

\* st is [stack, pairs].
InsertCollidedEntitiesInSubtree(ns, coll, depthID, nodeKey, st) ==
  LET prepared == [st EXCEPT !.stack = PrepareNodeCollisionContext(ns, coll, depthID, nodeKey, @)]
      below == InsertCollidedEntitiesInChildren(ns, coll, depthID + 1, GetChildren(ns, nodeKey), prepared)
  IN [below EXCEPT !.pairs = @ \o InsertCollidedEntitiesInsideNode(coll, below.stack[depthID].EntityIDs)
                                \o InsertCollidedEntitiesWithParents(coll, depthID, below.stack)]

CollectCollidedEntities(ns, coll) ==
  InsertCollidedEntitiesInSubtree(ns, coll, 0, GetRootKey,
                                  [stack |-> NodeContextStack0, pairs |-> <<>>]).pairs

---------------------------------------------------------------------------
\* Frustum culling.  Centres and half sizes are handed over doubled, which
\* keeps the halves of odd sizes whole; the distance of the plane and the
\* tolerance are doubled to match.

RECURSIVE DotFrom(_, _, _)
DotFrom(a, b, d) == IF d > DIMENSION_NO THEN 0 ELSE a[d] * b[d] + DotFrom(a, b, d + 1)
Dot(a, b) == DotFrom(a, b, 1)
AbsOf(x) == IF x < 0 THEN -x ELSE x

GetPointPlaneRelation(point, distanceOfOrigo, planeNormal, tolerance) ==
  LET pointProjected == Dot(planeNormal, point)
  IN IF pointProjected < distanceOfOrigo - tolerance THEN "Negative"
     ELSE IF pointProjected > distanceOfOrigo + tolerance THEN "Positive"
     ELSE "Hit"

GetBoxPlaneRelationAD(center2, halfSize2, distanceOfOrigo, planeNormal, tolerance) ==
  LET radiusProjected2 == 2 * tolerance + Dot(halfSize2, [d \in Dims |-> AbsOf(planeNormal[d])])
      centerProjected2 == Dot(planeNormal, center2) - 2 * distanceOfOrigo
  IN IF centerProjected2 + radiusProjected2 < 0 THEN "Negative"
     ELSE IF centerProjected2 - radiusProjected2 > 0 THEN "Positive"
     ELSE "Hit"

GetEntityPlaneRelation(entity, distanceOfOrigo, planeNormal, tolerance) ==
  IF kind = "box"
  THEN GetBoxPlaneRelationAD([d \in Dims |-> entity.Min[d] + entity.Max[d]],
                             [d \in Dims |-> entity.Max[d] - entity.Min[d]],
                             distanceOfOrigo, planeNormal, tolerance)
  ELSE GetPointPlaneRelation(entity, distanceOfOrigo, planeNormal, tolerance)

\* The selector of FrustumCullingBase: the first plane that does not have
\* the node on its positive side decides.
RECURSIVE FrustumSelector(_, _, _, _)
FrustumSelector(key, boundaryPlanes, tolerance, i) ==
  IF i > Len(boundaryPlanes) THEN TRUE
  ELSE LET relation ==
             GetBoxPlaneRelationAD([d \in Dims |-> 2 * CalculateNodeCenter(key)[d]],
                                   [d \in Dims |-> 2 * GetNodeSize(GetDepthID(key) + 1)[d]],
                                   boundaryPlanes[i].OrigoDistance, boundaryPlanes[i].Normal,
                                   tolerance)
       IN IF relation = "Hit" THEN TRUE
          ELSE IF relation = "Negative" THEN FALSE
          ELSE FrustumSelector(key, boundaryPlanes, tolerance, i + 1)

\* The loop of the procedure over the planes: relation is that of the
\* plane examined last.
RECURSIVE FrustumRelation(_, _, _, _, _)
FrustumRelation(entity, boundaryPlanes, tolerance, i, relation) ==
  IF i > Len(boundaryPlanes) THEN relation
  ELSE LET r == GetEntityPlaneRelation(entity, boundaryPlanes[i].OrigoDistance,
                                       boundaryPlanes[i].Normal, tolerance)
       IN IF r # "Positive" THEN r
          ELSE FrustumRelation(entity, boundaryPlanes, tolerance, i + 1, r)

\* The procedure of FrustumCullingBase on the entities of a node, from index i.
RECURSIVE FrustumProcedure(_, _, _, _, _, _)
FrustumProcedure(ents, coll, boundaryPlanes, tolerance, i, results) ==
  IF i > Len(ents) THEN results
  ELSE LET entityID == ents[i]
           relation == FrustumRelation(At(coll, entityID), boundaryPlanes, tolerance, 1, "Negative")
       IN FrustumProcedure(ents, coll, boundaryPlanes, tolerance, i + 1,
                           IF relation = "Negative" \/ entityID \in Range(results) THEN results
                           ELSE Append(results, entityID))

\* VisitNodesInDFS with the selector and the procedure of frustum culling.
RECURSIVE FrustumVisitNodesInDFS(_, _, _, _, _, _)
RECURSIVE FrustumVisitChildren(_, _, _, _, _, _, _)
FrustumVisitChildren(ns, coll, boundaryPlanes, tolerance, childKeys, i, results) ==
  IF i > Len(childKeys) THEN results
  ELSE FrustumVisitChildren(ns, coll, boundaryPlanes, tolerance, childKeys, i + 1,
                            FrustumVisitNodesInDFS(ns, coll, boundaryPlanes, tolerance,
                                                   childKeys[i], results))
FrustumVisitNodesInDFS(ns, coll, boundaryPlanes, tolerance, key, results) ==
  IF ~FrustumSelector(key, boundaryPlanes, tolerance, 1) THEN results
  ELSE FrustumVisitChildren(ns, coll, boundaryPlanes, tolerance, GetChildren(ns, key), 1,
                            FrustumProcedure(ns[key].ents, coll, boundaryPlanes, tolerance, 1, results))

FrustumCullingBase(ns, coll, boundaryPlanes, tolerance) ==
  IF boundaryPlanes = <<>> THEN <<>>
  ELSE FrustumVisitNodesInDFS(ns, coll, boundaryPlanes, tolerance, GetRootKey, <<>>)

---------------------------------------------------------------------------
\* The geometry the callers use.

Pt(x, y) == <<x, y>>
Bx(x1, y1, x2, y2) == [Min |-> <<x1, y1>>, Max |-> <<x2, y2>>]

\* Points inside the world box: in one cell, on a cell boundary, on the
\* root centre, on the far corner of the world; and one point outside.
PointsInside == {Pt(1, 1), Pt(3, 1), Pt(2, 2), Pt(4, 4), Pt(7, 5), Pt(WorldSize, WorldSize)}
PointsOutside == {Pt(-1, 3)}

\* Boxes inside the world box: inside one cell, over a quadrant, across the
\* root centre in one dimension and in both, across a quadrant centre in
\* one dimension, with a side on a cell boundary; and one box outside.
BoxesInside == {Bx(0, 0, 1, 1), Bx(1, 1, 3, 3), Bx(3, 1, 5, 2), Bx(2, 2, 6, 6),
                Bx(4, 4, 6, 6), Bx(4, 0, 6, 2)}
BoxesOutside == {Bx(7, 7, WorldSize + 1, WorldSize + 1)}

\* The geometry the editing calls are made with, and the entities of a
\* tree under edit are created with.
GeomsInside ==
  IF kind = "point" THEN {Pt(1, 1), Pt(2, 2), Pt(4, 4)}
  ELSE {Bx(0, 0, 1, 1), Bx(1, 1, 3, 3), Bx(3, 1, 5, 2)}
GeomsOutside == IF kind = "point" THEN PointsOutside ELSE BoxesOutside
Geoms == GeomsInside \cup GeomsOutside

\* The geometry the searches are made with.  Query boxes: the world box, a
\* box of no volume, boxes across the root centre, a box reaching out of
\* the world box.  Pick points: inside a cell, on the boundary of two
\* quadrants, on the root centre, on a quadrant centre.
RangesOfSearch == {BoxSpace, Bx(2, 2, 2, 2), Bx(1, 1, 5, 3), Bx(3, 3, 7, 7), Bx(-1, -1, 3, 3)}
PickPoints == {Pt(1, 1), Pt(4, 1), Pt(4, 4), Pt(2, 2), Pt(5, 5)}
SearchPoints == {Pt(1, 1), Pt(4, 4), Pt(-1, 3)}
NeighborNos == 0..MaxEntityNo
\* squares of the distances the nearest neighbours are limited to
MaxDistancesWithin == {2, 200}
GeomsOfTree == IF kind = "point" THEN PointsInside ELSE BoxesInside

\* The containers a tree is created over.
RECURSIVE SeqsUpTo(_, _)
SeqsUpTo(S, n) ==
  IF n = 0 THEN {<<>>}
  ELSE LET shorter == SeqsUpTo(S, n - 1)
       IN shorter \cup {Append(s, x) : s \in shorter, x \in S}

\* The planes of the frustum culling, normal to an axis: x >= 2, y >= 4 and
\* x <= 6; and the lists of planes the culling is asked with.
Plane(distanceOfOrigo, nx, ny) == [OrigoDistance |-> distanceOfOrigo, Normal |-> <<nx, ny>>]
Planes == {Plane(2, 1, 0), Plane(4, 0, 1), Plane(-6, -1, 0)}
MaxPlaneNo == 2
PlaneLists == SeqsUpTo(Planes, MaxPlaneNo)

---------------------------------------------------------------------------
\* The caller's side of a call.

Put(coll, e, g) == IF e = Len(coll) THEN Append(coll, g) ELSE [coll EXCEPT ![e + 1] = g]
Tombstone(coll, e) == IF e < Len(coll) THEN [coll EXCEPT ![e + 1] = NoGeom] ELSE coll
RemoveSlot(coll, e) ==
  IF e < Len(coll) THEN SubSeq(coll, 1, e) \o SubSeq(coll, e + 2, Len(coll)) ELSE coll

IsResident(e) == e \in StoredIDs(nodes)
HasSlot(e) == e < Len(geom)

\* Ids an insertion may introduce: not stored, and the next free slot at most.
FreeIDs == {e \in EntityIDs : e <= Len(geom) /\ ~IsResident(e)}

\* Every stored id names an entity of the container; a call on a tree that
\* lost this would read the container out of range.
InSync == \A e \in StoredIDs(nodes) : HasSlot(e) /\ At(geom, e) # NoGeom

\* The geometry a caller hands to an erase or update of id e as the old one.
OldGeoms(e) ==
  IF HasSlot(e) /\ At(geom, e) # NoGeom THEN {At(geom, e)} \cup GeomsOutside ELSE Geoms

\* The old geometry of an update: that of the entity, or for an id with no
\* entity the new one.
UpdatedGeoms(e, g) ==
  IF HasSlot(e) /\ At(geom, e) # NoGeom THEN {At(geom, e)} \cup GeomsOutside ELSE {g}

\* A call of an editing function: g is the geometry handed over, g0 the old
\* geometry of an update.
Call(op, e, g, g0, flag, ok, res) ==
  [op |-> op, id |-> e, g |-> g, g0 |-> g0, flag |-> flag, ok |-> ok, res |-> res,
   range |-> NoGeom, point |-> NoGeom, limit |-> 0, again |-> FALSE, planes |-> <<>>]
\* A call of a search: the query box or the query point, the number of
\* neighbours and the distance limit asked for, and the ids found.
Search(op, range, point, neighborNo, limit, flag, res) ==
  [op |-> op, id |-> neighborNo, g |-> NoGeom, g0 |-> NoGeom, flag |-> flag, ok |-> TRUE,
   res |-> res, range |-> range, point |-> point, limit |-> limit, again |-> FALSE,
   planes |-> <<>>]
\* A call of Init or Create: the depth and the number of entities of a node
\* asked for, whether the tree held nodes, whether the tree object had been
\* initialised before, and whether the call returned.
ConfigCall(op, maxDepthID, maxElementNo, hadNodes, again, ok) ==
  [Call(op, maxDepthID, NoGeom, NoGeom, hadNodes, ok, <<>>)
     EXCEPT !.limit = maxElementNo, !.again = again]

\* No call is in progress: the caller has taken the value the last call returned.
NoCall == Call("None", 0, NoGeom, NoGeom, FALSE, TRUE, <<>>)
Idle == last = NoCall
\* CRASH has terminated the process: nothing is called any more.
Terminated == last.op \in {"Init", "Create"} /\ ~last.ok

\* Monitor of the sequence: insert of a non-resident id e, erase of e with
\* the default template arguments, insert of e.  base is the set of stored
\* ids before the first insertion.  The sequence is followed under
\* SpecOfSequence only; elsewhere the monitor stays Unmonitored.
NoHist == [phase |-> 0, e |-> 0, base |-> {}]
Unmonitored == [phase |-> -1, e |-> 0, base |-> {}]
\* The arena of a specification that does not follow it.
Unfollowed ==
  [m_pages |-> <<>>, m_freeMainSegments |-> <<>>, m_freedPages |-> <<>>, isUndefined |-> FALSE]
HistAfterInsert(e, ok) ==
  IF hist = Unmonitored THEN hist
  ELSE IF ~ok THEN NoHist
  ELSE IF hist.phase = 2 /\ hist.e = e THEN [hist EXCEPT !.phase = 3]
  ELSE [phase |-> 1, e |-> e, base |-> StoredIDs(nodes)]
HistAfterErase(e, isDefaultArgs, ok) ==
  IF hist = Unmonitored THEN hist
  ELSE IF ok /\ isDefaultArgs /\ hist.phase = 1 /\ hist.e = e THEN [hist EXCEPT !.phase = 2]
  ELSE NoHist
HistAfterOther == IF hist = Unmonitored THEN hist ELSE NoHist

InsertStep(op, e, g, flag, r) ==
  /\ nodes' = r.ns
  /\ geom' = IF r.ok THEN Put(geom, e, g) ELSE geom
  /\ last' = Call(op, e, g, NoGeom, flag, r.ok, <<>>)
  /\ hist' = HistAfterInsert(e, r.ok)
  /\ UNCHANGED <<tasks, m_memoryResource, kind, split, nodeSizes>>

EraseStep(op, e, g, doUpdateEntityIDs, r) ==
  /\ nodes' = r.ns
  /\ geom' = IF ~r.ok THEN geom
             ELSE IF doUpdateEntityIDs THEN RemoveSlot(geom, e) ELSE Tombstone(geom, e)
  /\ last' = Call(op, e, g, NoGeom, doUpdateEntityIDs, r.ok, <<>>)
  /\ hist' = HistAfterErase(e, doUpdateEntityIDs, r.ok)
  /\ UNCHANGED <<tasks, m_memoryResource, kind, split, nodeSizes>>

UpdateStep(op, e, g0, g, flag, r) ==
  /\ nodes' = r.ns
  /\ geom' = IF r.ok /\ e \in StoredIDs(r.ns) THEN Put(geom, e, g) ELSE geom
  /\ last' = Call(op, e, g, g0, flag, r.ok, <<>>)
  /\ hist' = HistAfterOther
  /\ UNCHANGED <<tasks, m_memoryResource, kind, split, nodeSizes>>

\* A search: the tree and the container are left as they are.
SearchStep(op, range, point, neighborNo, limit, flag, res) ==
  /\ last' = Search(op, range, point, neighborNo, limit, flag, res)
  /\ UNCHANGED <<tasks, m_memoryResource, kind, split, nodes, geom, hist, nodeSizes>>

\* The container a rebalancing call reads, with the geometry of e in place.
With(coll, e, g) == IF e <= Len(coll) THEN Put(coll, e, g) ELSE coll

---------------------------------------------------------------------------
\* The tree after construction, and the calls on it.

Kinds == {<<"point", FALSE>>, <<"box", FALSE>>, <<"box", TRUE>>}

Init ==
  /\ \E k \in Kinds : kind = k[1] /\ split = k[2]
  /\ nodeSizes = InitNodeSizes(<<>>, MaxDepthID)
  /\ geom \in SeqsUpTo(GeomsInside, MaxEntityNo)
  /\ nodes = Create(geom)
  /\ last = Call("Create", 0, NoGeom, NoGeom, FALSE, TRUE, <<>>)
  /\ hist = Unmonitored
  /\ m_memoryResource = Unfollowed
  /\ tasks = <<>>

Insert ==
  /\ Idle /\ InSync
  /\ \E e \in FreeIDs, g \in Geoms, doInsertToLeaf \in BOOLEAN :
       InsertStep("Insert", e, g, doInsertToLeaf,
                  IF kind = "point" THEN PointInsert(nodes, e, g, doInsertToLeaf)
                  ELSE BoxInsert(nodes, e, g, doInsertToLeaf))

\* res tells the node the call has rebalanced, if it has rebalanced one.
InsertWithRebalancing ==
  /\ Idle /\ InSync
  /\ \E e \in FreeIDs, g \in Geoms :
       LET r == IF kind = "point" THEN PointInsertWithRebalancing(nodes, e, g, With(geom, e, g))
                ELSE BoxInsertWithRebalancing(nodes, e, g, With(geom, e, g))
       IN /\ nodes' = r.ns
          /\ geom' = IF r.ok THEN Put(geom, e, g) ELSE geom
          /\ last' = Call("InsertWithRebalancing", e, g, NoGeom, FALSE, r.ok,
                          IF r.ok THEN RebalancedNodes(nodes, g) ELSE <<>>)
          /\ hist' = HistAfterInsert(e, r.ok)
          /\ UNCHANGED <<tasks, m_memoryResource, kind, split, nodeSizes>>

EraseEntity ==
  /\ Idle /\ InSync
  /\ \E e \in EntityIDs, doUpdateEntityIDs \in BOOLEAN :
       EraseStep("EraseEntity", e, NoGeom, doUpdateEntityIDs,
                 IF kind = "point" THEN PointEraseEntity(nodes, e, doUpdateEntityIDs)
                 ELSE BoxEraseEntity(nodes, e, doUpdateEntityIDs))

Erase ==
  /\ Idle /\ InSync
  /\ \E e \in EntityIDs, doUpdateEntityIDs \in BOOLEAN :
       \E g \in OldGeoms(e) :
         EraseStep("Erase", e, g, doUpdateEntityIDs,
                   IF kind = "point" THEN PointErase(nodes, e, g, doUpdateEntityIDs)
                   ELSE BoxErase(nodes, e, g, doUpdateEntityIDs))

Update ==
  /\ Idle /\ InSync
  /\ \E e \in EntityIDs, g \in Geoms, doInsertToLeaf \in BOOLEAN :
       UpdateStep("Update", e, NoGeom, g, doInsertToLeaf,
                  IF kind = "point" THEN PointUpdate(nodes, e, g, doInsertToLeaf)
                  ELSE BoxUpdate(nodes, e, g, doInsertToLeaf))

UpdateOld ==
  /\ Idle /\ InSync
  /\ \E e \in EntityIDs, g \in Geoms, doInsertToLeaf \in BOOLEAN :
       \E g0 \in UpdatedGeoms(e, g) :
         UpdateStep("UpdateOld", e, g0, g, doInsertToLeaf,
                    IF kind = "point" THEN PointUpdateOld(nodes, e, g0, g, doInsertToLeaf)
                    ELSE BoxUpdateOld(nodes, e, g0, g, doInsertToLeaf))

UpdateRebalancing ==
  /\ Idle /\ InSync
  /\ \E e \in EntityIDs, g \in Geoms :
       UpdateStep("UpdateRebalancing", e, NoGeom, g, FALSE,
                  IF kind = "point" THEN PointUpdateRebalancing(nodes, e, g, With(geom, e, g))
                  ELSE BoxUpdateRebalancing(nodes, e, g, With(geom, e, g)))

UpdateOldRebalancing ==
  /\ Idle /\ InSync
  /\ \E e \in EntityIDs, g \in Geoms :
       \E g0 \in UpdatedGeoms(e, g) :
         UpdateStep("UpdateOldRebalancing", e, g0, g, FALSE,
                    IF kind = "point" THEN PointUpdateOldRebalancing(nodes, e, g0, g, With(geom, e, g))
                    ELSE BoxUpdateOldRebalancing(nodes, e, g0, g, With(geom, e, g)))

InsertUniqueEntity ==
  /\ Idle /\ InSync /\ kind = "point"
  /\ \E e \in FreeIDs, g \in Geoms, tolerance \in MaxDistancesWithin, doInsertToLeaf \in BOOLEAN :
       InsertStep("InsertUnique", e, g, doInsertToLeaf,
                  InsertUnique(nodes, e, g, tolerance, With(geom, e, g), doInsertToLeaf))

RangeSearch ==
  /\ Idle /\ InSync
  /\ \E range \in RangesOfSearch :
       \/ /\ kind = "point"
          /\ \E ub \in UBGridIDs :
               SearchStep("RangeSearch", range, NoGeom, 0, 0, FALSE,
                          PointRangeSearch(nodes, geom, range, ub))
       \/ /\ kind = "box"
          /\ \E doMustFullyContain \in BOOLEAN :
               SearchStep("RangeSearch", range, NoGeom, 0, 0, doMustFullyContain,
                          BoxRangeSearch(nodes, geom, range, doMustFullyContain))

PickSearchOfPoint ==
  /\ Idle /\ InSync /\ kind = "box"
  /\ \E pickPoint \in PickPoints :
       SearchStep("PickSearch", NoGeom, pickPoint, 0, 0, FALSE, PickSearch(nodes, geom, pickPoint))

NearestNeighbors ==
  /\ Idle /\ InSync /\ kind = "point"
  /\ \E searchPoint \in SearchPoints, neighborNo \in NeighborNos, maxDistanceWithin \in MaxDistancesWithin :
       \E res \in GetNearestNeighbors(nodes, geom, searchPoint, neighborNo, maxDistanceWithin) :
         SearchStep("GetNearestNeighbors", NoGeom, searchPoint, neighborNo, maxDistanceWithin, FALSE, res)

CollisionDetection ==
  /\ Idle /\ InSync /\ kind = "box"
  /\ SearchStep("CollisionDetection", NoGeom, NoGeom, 0, 0, FALSE, CollectCollidedEntities(nodes, geom))

\* The caller takes the returned value; the tree is left as it is.
Return ==
  /\ ~Idle /\ ~Terminated
  /\ last' = NoCall
  /\ hist' = IF hist.phase = 3 THEN NoHist ELSE hist
  /\ UNCHANGED <<tasks, m_memoryResource, kind, split, nodes, geom, nodeSizes>>

Next ==
  \/ Return
  \/ Insert
  \/ InsertWithRebalancing
  \/ EraseEntity
  \/ Erase
  \/ Update
  \/ UpdateOld
  \/ UpdateRebalancing
  \/ UpdateOldRebalancing
  \/ InsertUniqueEntity

Spec == Init /\ [][Next]_vars

\* The insertions and the erasures, with the monitor of the sequence
\* insert, erase, insert.
InitOfSequence ==
  /\ \E k \in Kinds : kind = k[1] /\ split = k[2]
  /\ nodeSizes = InitNodeSizes(<<>>, MaxDepthID)
  /\ geom \in SeqsUpTo(GeomsInside, MaxEntityNo)
  /\ nodes = Create(geom)
  /\ last = Call("Create", 0, NoGeom, NoGeom, FALSE, TRUE, <<>>)
  /\ hist = NoHist
  /\ m_memoryResource = Unfollowed
  /\ tasks = <<>>

NextOfSequence ==
  \/ Return
  \/ Insert
  \/ InsertWithRebalancing
  \/ EraseEntity
  \/ Erase

SpecOfSequence == InitOfSequence /\ [][NextOfSequence]_vars

\* The searches, on the trees created over the richer containers and on
\* what erasing, updating and inserting make of them.
InitOfSearch ==
  /\ \E k \in Kinds : kind = k[1] /\ split = k[2]
  /\ nodeSizes = InitNodeSizes(<<>>, MaxDepthID)
  /\ geom \in SeqsUpTo(GeomsOfTree, MaxEntityNo)
  /\ nodes = Create(geom)
  /\ last = Call("Create", 0, NoGeom, NoGeom, FALSE, TRUE, <<>>)
  /\ hist = NoHist
  /\ m_memoryResource = Unfollowed
  /\ tasks = <<>>

NextOfSearch ==
  \/ Return
  \/ RangeSearch
  \/ PickSearchOfPoint
  \/ NearestNeighbors
  \/ CollisionDetection
  \/ EraseEntity
  \/ Update
  \/ UpdateRebalancing

SpecOfSearch == InitOfSearch /\ [][NextOfSearch]_vars

\* The frustum culling, on the trees of the searches and on what updating
\* makes of them.
FrustumCulling ==
  /\ Idle /\ InSync
  /\ \E boundaryPlanes \in PlaneLists :
       /\ last' = [Search("FrustumCulling", NoGeom, NoGeom, 0, 0, FALSE,
                          FrustumCullingBase(nodes, geom, boundaryPlanes, 0))
                     EXCEPT !.planes = boundaryPlanes]
       /\ UNCHANGED <<tasks, m_memoryResource, kind, split, nodes, geom, hist, nodeSizes>>

NextOfPlanes ==
  \/ Return
  \/ FrustumCulling
  \/ Update

SpecOfPlanes == InitOfSearch /\ [][NextOfPlanes]_vars

\* The bulk build of a tree over a container, serial and parallel.
InitOfBuild ==
  /\ \E k \in Kinds : kind = k[1] /\ split = k[2]
  /\ nodeSizes = <<>>
  /\ geom = <<>>
  /\ nodes = <<>>
  /\ last = NoCall
  /\ hist = NoHist
  /\ m_memoryResource = Unfollowed
  /\ tasks = <<>>

CreateSerial ==
  /\ Idle /\ DOMAIN nodes = {}
  /\ \E coll \in SeqsUpTo(GeomsOfTree, MaxEntityNo) :
       /\ nodes' = Create(coll)
       /\ nodeSizes' = InitBase(nodes, nodeSizes, MaxDepthID, MaxElementNo).sizes
       /\ geom' = coll
       /\ last' = Call("Create", 0, NoGeom, NoGeom, FALSE, TRUE, <<>>)
       /\ UNCHANGED <<tasks, m_memoryResource, kind, split, hist>>

CreateParallel ==
  /\ Idle /\ DOMAIN nodes = {}
  /\ \E coll \in SeqsUpTo(GeomsOfTree, MaxEntityNo) :
       \E order \in SortedOrders(coll) :
         /\ nodes' = CreateSorted(coll, order)
         /\ nodeSizes' = InitBase(nodes, nodeSizes, MaxDepthID, MaxElementNo).sizes
         /\ geom' = coll
         /\ last' = Call("CreateParallel", 0, NoGeom, NoGeom, FALSE, TRUE, order)
         /\ UNCHANGED <<tasks, m_memoryResource, kind, split, hist>>

NextOfBuild ==
  \/ Return
  \/ CreateSerial
  \/ CreateParallel

SpecOfBuild == InitOfBuild /\ [][NextOfBuild]_vars

\* Initialisation: a tree object after its default construction, Init,
\* Create and Reset on it, and insertion into the tree it holds.
DepthIDsOfInit == {0, MaxDepthID, MAX_THEORETICAL_DEPTH_ID + 1}
ElementNosOfInit == {0, MaxElementNo}

\* The model reads the depth and the number of entities of a node from
\* MaxDepthID and MaxElementNo: a tree is initialised with these.
IsModelled(r, maxDepthID, maxElementNo) ==
  \/ r.crash
  \/ /\ maxDepthID = MaxDepthID
     /\ maxElementNo = MaxElementNo
     /\ AreNodeSizesExact(nodeSizes, maxDepthID)

InitOfConfig ==
  /\ \E k \in Kinds : kind = k[1] /\ split = k[2]
  /\ nodeSizes = <<>>
  /\ geom = <<>>
  /\ nodes = <<>>
  /\ last = NoCall
  /\ hist = NoHist
  /\ m_memoryResource = Unfollowed
  /\ tasks = <<>>

InitTree ==
  /\ Idle
  /\ \E maxDepthID \in DepthIDsOfInit, maxElementNo \in ElementNosOfInit :
       LET r == InitBase(nodes, nodeSizes, maxDepthID, maxElementNo)
       IN /\ IsModelled(r, maxDepthID, maxElementNo)
          /\ nodes' = r.ns
          /\ nodeSizes' = r.sizes
          /\ geom' = IF r.crash THEN geom ELSE <<>>
          /\ last' = ConfigCall("Init", maxDepthID, maxElementNo, DOMAIN nodes # {},
                                nodeSizes # <<>>, ~r.crash)
          /\ hist' = NoHist
          /\ UNCHANGED <<tasks, m_memoryResource, kind, split>>

CreateTree ==
  /\ Idle
  /\ \E coll \in SeqsUpTo(GeomsInside, MaxEntityNo) :
       \E maxDepthIDIn \in DepthIDsOfInit, maxElementNoInNode \in ElementNosOfInit :
         \E estimate \in (IF maxDepthIDIn = 0
                          THEN EstimateMaxDepth(Len(coll), maxElementNoInNode)
                          ELSE {[trap |-> FALSE, depth |-> maxDepthIDIn]}) :
           LET r == IF estimate.trap THEN [crash |-> TRUE, ns |-> nodes, sizes |-> nodeSizes]
                    ELSE InitBase(nodes, nodeSizes, estimate.depth, maxElementNoInNode)
           IN /\ IsModelled(r, estimate.depth, maxElementNoInNode)
              /\ nodes' = IF r.crash THEN nodes ELSE Create(coll)
              /\ nodeSizes' = r.sizes
              /\ geom' = IF r.crash THEN geom ELSE coll
              /\ last' = ConfigCall("Create", maxDepthIDIn, maxElementNoInNode, DOMAIN nodes # {},
                                    nodeSizes # <<>>, ~r.crash)
              /\ hist' = NoHist
              /\ UNCHANGED <<tasks, m_memoryResource, kind, split>>

ResetTree ==
  /\ Idle
  /\ nodes' = Reset(nodes, nodeSizes).ns
  /\ nodeSizes' = Reset(nodes, nodeSizes).sizes
  /\ geom' = <<>>
  /\ last' = Call("Reset", 0, NoGeom, NoGeom, FALSE, TRUE, <<>>)
  /\ hist' = NoHist
  /\ UNCHANGED <<tasks, m_memoryResource, kind, split>>

InsertIntoTree == DOMAIN nodes # {} /\ Insert

NextOfConfig ==
  \/ Return
  \/ InitTree
  \/ CreateTree
  \/ ResetTree
  \/ InsertIntoTree

SpecOfConfig == InitOfConfig /\ [][NextOfConfig]_vars

---------------------------------------------------------------------------
\* Morton indexing at the width of the integers of the code, for the
\* dimensions its branches tell apart.  An unsigned integer is the set of
\* the positions of its 1 bits, so that a shift drops what leaves the width.

\* Largest dimension of the trees the encoding is computed for.
MaxDimensionNo == 4
DimensionNos == 1..MaxDimensionNo

\* sizeof(GridID) and sizeof(LocationID) in bits.
GridBitNo == 32
LocationBitNo(dimensionNo) == IF dimensionNo < 4 THEN 32 ELSE 64
MaxTheoreticalDepthID(dimensionNo) == (LocationBitNo(dimensionNo) - 1) \div dimensionNo

BitsShiftL(bits, n, bitNo) == {b + n : b \in bits} \cap (0..(bitNo - 1))
BitsShiftR(bits, n) == {b - n : b \in {x \in bits : x >= n}}
BitsXor(a, b) == (a \ b) \cup (b \ a)
BitsWidth(bits) == IF bits = {} THEN 0 ELSE 1 + CHOOSE b \in bits : \A c \in bits : c <= b
\* The value of a literal, written as the code writes it: hexadecimal or
\* binary digits, most significant first.
BitsOfDigits(digits, bitNoOfDigit) ==
  UNION {{bitNoOfDigit * (Len(digits) - i) + b :
            b \in {c \in 0..(bitNoOfDigit - 1) : (digits[i] \div (2 ^ c)) % 2 = 1}} :
          i \in DOMAIN digits}
Hex(digits) == BitsOfDigits(digits, 4)
Binary(digits) == BitsOfDigits(digits, 1)

\* Part1By1 without its first step: the mutation of it.
Part1By1Low(gridID) ==
  LET l2 == BitsXor(gridID, BitsShiftL(gridID, 4, 32)) \cap Hex(<<0, 15, 0, 15, 0, 15, 0, 15>>)
      l3 == BitsXor(l2, BitsShiftL(l2, 2, 32)) \cap Hex(<<3, 3, 3, 3, 3, 3, 3, 3>>)
  IN BitsXor(l3, BitsShiftL(l3, 1, 32)) \cap Hex(<<5, 5, 5, 5, 5, 5, 5, 5>>)

\* sizeof(LocationID) == 4, the only instance: DIMENSION_NO is 2.
Part1By1(gridID) ==
  LET l1 == BitsXor(gridID, BitsShiftL(gridID, 8, 32)) \cap Hex(<<0, 0, 15, 15, 0, 0, 15, 15>>)
      l2 == BitsXor(l1, BitsShiftL(l1, 4, 32)) \cap Hex(<<0, 15, 0, 15, 0, 15, 0, 15>>)
      l3 == BitsXor(l2, BitsShiftL(l2, 2, 32)) \cap Hex(<<3, 3, 3, 3, 3, 3, 3, 3>>)
  IN BitsXor(l3, BitsShiftL(l3, 1, 32)) \cap Hex(<<5, 5, 5, 5, 5, 5, 5, 5>>)

\* sizeof(LocationID) == 4, the only instance: DIMENSION_NO is 3.
Part1By2(gridID) ==
  LET l1 == BitsXor(gridID, BitsShiftL(gridID, 16, 32)) \cap Hex(<<15, 15, 0, 0, 0, 0, 15, 15>>)
      l2 == BitsXor(l1, BitsShiftL(l1, 8, 32)) \cap Hex(<<0, 3, 0, 0, 15, 0, 0, 15>>)
      l3 == BitsXor(l2, BitsShiftL(l2, 4, 32)) \cap Hex(<<0, 3, 0, 12, 3, 0, 12, 3>>)
  IN BitsXor(l3, BitsShiftL(l3, 2, 32)) \cap Hex(<<0, 9, 2, 4, 9, 2, 4, 9>>)

GetBitPattern(dimensionNo) ==
  {depthID * dimensionNo : depthID \in 0..(MaxTheoreticalDepthID(dimensionNo) - 1)}
GetBitPatterns(dimensionNo) ==
  [d \in 1..dimensionNo |->
     BitsShiftL(GetBitPattern(dimensionNo), d - 1, LocationBitNo(dimensionNo))]

\* _pdep_u32, _pdep_u64: the low bits of the source go to the 1 bits of the
\* mask; _pext_u32, _pext_u64: the bits of the source at the 1 bits of the
\* mask are gathered in the low bits.
BitsBelow(mask, b) == Cardinality({m \in mask : m < b})
Pdep(source, mask) == {m \in mask : BitsBelow(mask, m) \in source}
Pext(source, mask) == {BitsBelow(mask, m) : m \in source \cap mask}

\* Encode; isBMI2 tells whether the build has BMI2_PDEP_AVAILABLE.
EncodeOfDimension(dimensionNo, isBMI2, gridID) ==
  IF dimensionNo = 1 THEN gridID[1]
  ELSE IF dimensionNo = 2 THEN
    IF isBMI2
    THEN Pdep(gridID[2], Binary(<<1,0,1,0,1,0,1,0, 1,0,1,0,1,0,1,0, 1,0,1,0,1,0,1,0, 1,0,1,0,1,0,1,0>>))
           \cup Pdep(gridID[1], Binary(<<0,1,0,1,0,1,0,1, 0,1,0,1,0,1,0,1, 0,1,0,1,0,1,0,1, 0,1,0,1,0,1,0,1>>))
    ELSE BitsShiftL(Part1By1(gridID[2]), 1, 32) \cup Part1By1(gridID[1])
  ELSE IF dimensionNo = 3 THEN
    IF isBMI2
    THEN Pdep(gridID[3], Binary(<<0,0,1,0,0,1,0,0, 1,0,0,1,0,0,1,0, 0,1,0,0,1,0,0,1, 0,0,1,0,0,1,0,0>>))
           \cup Pdep(gridID[2], Binary(<<1,0,0,1,0,0,1,0, 0,1,0,0,1,0,0,1, 0,0,1,0,0,1,0,0, 1,0,0,1,0,0,1,0>>))
           \cup Pdep(gridID[1], Binary(<<0,1,0,0,1,0,0,1, 0,0,1,0,0,1,0,0, 1,0,0,1,0,0,1,0, 0,1,0,0,1,0,0,1>>))
    ELSE BitsShiftL(Part1By2(gridID[3]), 2, 32) \cup BitsShiftL(Part1By2(gridID[2]), 1, 32)
           \cup Part1By2(gridID[1])
  ELSE IF isBMI2
    THEN UNION {Pdep(gridID[d], GetBitPatterns(dimensionNo)[d]) : d \in 1..dimensionNo}
    ELSE LET msb == UNION {gridID[d] : d \in 1..dimensionNo}
         IN UNION {BitsShiftL(gridID[d] \cap {i}, (d - 1) + i * dimensionNo - i,
                              LocationBitNo(dimensionNo)) :
                     d \in 1..dimensionNo, i \in 0..(BitsWidth(msb) - 1)}

GetHashOfDimension(dimensionNo, depth, locationID) ==
  BitsShiftL({0}, depth * dimensionNo, LocationBitNo(dimensionNo)) \cup locationID
GetDepthIDOfDimension(dimensionNo, key) == (BitsWidth(key) - 1) \div dimensionNo
RemoveSentinelBit(key) == key \ {BitsWidth(key) - 1}

DecodeOfDimension(dimensionNo, isBMI2, nodeKey, maxDepthID) ==
  LET depthID == GetDepthIDOfDimension(dimensionNo, nodeKey)
      examinationLevelID == maxDepthID - depthID
  IN IF dimensionNo = 1
     THEN <<BitsShiftL(RemoveSentinelBit(nodeKey), examinationLevelID, 32)>>
     ELSE IF isBMI2
     THEN LET locationID == BitsShiftL(RemoveSentinelBit(nodeKey),
                                       examinationLevelID * dimensionNo,
                                       LocationBitNo(dimensionNo))
          IN [d \in 1..dimensionNo |-> Pext(locationID, GetBitPatterns(dimensionNo)[d])]
     ELSE [d \in 1..dimensionNo |->
             UNION {BitsShiftL(BitsShiftR(nodeKey, (level - examinationLevelID) * dimensionNo + d - 1)
                                 \cap {0},
                               level, GridBitNo) :
                      level \in examinationLevelID..(maxDepthID - 1)}]

\* Grid ids below 2^maxDepthID: none and all of the bits, the lowest and
\* the highest bit alone, and every other bit.
GridIDsOfDepth(maxDepthID) ==
  {{}, {0}, {maxDepthID - 1}, 0..(maxDepthID - 1),
   {b \in 0..(maxDepthID - 1) : b % 2 = 1}}
GridsOfDepth(dimensionNo, maxDepthID) == [1..dimensionNo -> GridIDsOfDepth(maxDepthID)]

InitOfMorton ==
  /\ kind = "point" /\ split = FALSE
  /\ nodeSizes = <<>>
  /\ geom = <<>>
  /\ nodes = <<>>
  /\ last = NoCall
  /\ hist = NoHist
  /\ m_memoryResource = Unfollowed
  /\ tasks = <<>>

\* Decode of the key of the deepest node of an encoded grid id.
DecodeEncoded ==
  /\ Idle
  /\ \E dimensionNo \in DimensionNos, isBMI2 \in BOOLEAN :
       \E maxDepthID \in 1..MaxTheoreticalDepthID(dimensionNo) :
         \E gridID \in GridsOfDepth(dimensionNo, maxDepthID) :
           LET key == GetHashOfDimension(dimensionNo, maxDepthID,
                                         EncodeOfDimension(dimensionNo, isBMI2, gridID))
           IN last' = [Call("Decode", dimensionNo, gridID, <<key>>, isBMI2, TRUE,
                            DecodeOfDimension(dimensionNo, isBMI2, key, maxDepthID))
                         EXCEPT !.limit = maxDepthID]
  /\ UNCHANGED <<tasks, m_memoryResource, kind, split, nodes, geom, nodeSizes, hist>>

\* GetRangeLocationMetaData of a range of grid ids of a tree maxDepthID deep.
MaxDepthIDOfRange == 3
GridRangesOfDepth(maxDepthID) ==
  LET gridIDs == [Dims -> 0..(Pow2(maxDepthID) - 1)]
  IN {r \in [Min : gridIDs, Max : gridIDs] : \A d \in Dims : r.Min[d] <= r.Max[d]}

LocateGridRange ==
  /\ Idle
  /\ \E maxDepthID \in 1..MaxDepthIDOfRange :
       \E gridIDRange \in GridRangesOfDepth(maxDepthID) :
         LET dl == GetRangeLocationMetaDataOfIDs(
                     maxDepthID, GetRangeLocationID(<<gridIDRange.Min, gridIDRange.Max>>))
         IN last' = [Call("GetRangeLocationMetaData", maxDepthID, NoGeom, NoGeom, FALSE, TRUE,
                          <<dl.DepthID, dl.LocID, dl.TouchedDimensionsFlag, dl.LowerSegmentID>>)
                       EXCEPT !.range = gridIDRange]
  /\ UNCHANGED <<tasks, m_memoryResource, kind, split, nodes, geom, nodeSizes, hist>>

NextOfMorton ==
  \/ Return
  \/ DecodeEncoded
  \/ LocateGridRange

SpecOfMorton == InitOfMorton /\ [][NextOfMorton]_vars

---------------------------------------------------------------------------
\* The memory resource of the entity ids (MemoryResource): the pages, the
\* free regions of the main page and the freed pages.  A page is the
\* sequence of its elements: the element of index i of page p is
\* m_pages[p + 1][i + 1].  A memory segment is a page id and a span, kept
\* as the index of its first element in the page and its size.  An iterator
\* of a vector is the place of the element in the sequence, end() the place
\* after the last.

MAIN_PAGEID == 0
MIN_SEGMENT_SIZE == 4

\* MemorySegment{}.
EmptySegment == [pageID |-> MAIN_PAGEID, begin |-> 0, size |-> 0]

\* std::vector<T>(capacity): value-initialised elements.
NewPage(capacity) == [i \in 1..capacity |-> 0]
\* page.resize(size): the elements kept, value-initialised elements appended.
ResizedPage(page, size) == [i \in 1..size |-> IF i <= Len(page) THEN page[i] ELSE 0]
RemovedAt(seq, it) == [i \in 1..(Len(seq) - 1) |-> IF i < it THEN seq[i] ELSE seq[i + 1]]

\* MemoryResource::Init.
InitMemoryResource(firstPageSize) ==
  [m_pages |-> <<NewPage(firstPageSize + MIN_SEGMENT_SIZE)>>,
   m_freeMainSegments |-> <<[begin |-> 0, capacity |-> firstPageSize + MIN_SEGMENT_SIZE]>>,
   m_freedPages |-> <<>>,
   isUndefined |-> FALSE]

EndOf(freeMainSegments) == Len(freeMainSegments) + 1
\* std::find_if: the first place whose element has the flag, or end().
FindIf(flags) ==
  IF \E i \in DOMAIN flags : flags[i]
  THEN CHOOSE i \in DOMAIN flags : flags[i] /\ \A j \in 1..(i - 1) : ~flags[j]
  ELSE Len(flags) + 1

GetMainPageIndexOfBegin(ms) == ms.begin
GetMainPageIndexOfEnd(ms) == ms.begin + ms.size

GetFreeSegmentByCapacity(mr, capacity) ==
  LET free == mr.m_freeMainSegments
  IN IF free = <<>> \/ free[Len(free)].capacity < capacity + MIN_SEGMENT_SIZE
     THEN EndOf(free)
     ELSE LET requiredCapacity == capacity + MIN_SEGMENT_SIZE
          IN PartitionPoint([i \in DOMAIN free |-> free[i].capacity < requiredCapacity]) + 1

GetConnectingFreeSegment(mr, allocatedSegment) ==
  LET free == mr.m_freeMainSegments
      begin == GetMainPageIndexOfEnd(allocatedSegment)
  IN IF allocatedSegment.size = 0 THEN EndOf(free)
     ELSE IF begin = Len(mr.m_pages[MAIN_PAGEID + 1]) THEN EndOf(free)
     ELSE FindIf([i \in DOMAIN free |-> free[i].begin = begin])

GetPreviousFreeSegment(mr, allocatedSegment) ==
  LET free == mr.m_freeMainSegments
      begin == GetMainPageIndexOfBegin(allocatedSegment)
  IN IF allocatedSegment.size = 0 THEN EndOf(free)
     ELSE IF begin = 0 THEN EndOf(free)
     ELSE FindIf([i \in DOMAIN free |-> free[i].begin + free[i].capacity = begin])

\* The loops of HandleFreeSegmentChange: the elements between the place of
\* the changed region and its final place move by one.
RECURSIVE MovedDown(_, _, _)
MovedDown(free, freeSegmentIt, newCapacity) ==
  IF freeSegmentIt # 1 /\ free[freeSegmentIt - 1].capacity > newCapacity
  THEN MovedDown([free EXCEPT ![freeSegmentIt] = free[freeSegmentIt - 1]],
                 freeSegmentIt - 1, newCapacity)
  ELSE [free |-> free, it |-> freeSegmentIt]
RECURSIVE MovedUp(_, _, _)
MovedUp(free, freeSegmentIt, newCapacity) ==
  IF freeSegmentIt # Len(free) /\ free[freeSegmentIt + 1].capacity < newCapacity
  THEN MovedUp([free EXCEPT ![freeSegmentIt] = free[freeSegmentIt + 1]],
               freeSegmentIt + 1, newCapacity)
  ELSE [free |-> free, it |-> freeSegmentIt]

\* The changed region written at the place it has, whatever its capacity.
HandleFreeSegmentChangeInPlace(free, freeSegmentIt, newBegin, newCapacity) ==
  IF newCapacity = 0 THEN RemovedAt(free, freeSegmentIt)
  ELSE [free EXCEPT ![freeSegmentIt] = [begin |-> newBegin, capacity |-> newCapacity]]

HandleFreeSegmentChange(free, freeSegmentIt, newBegin, newCapacity) ==
  IF newCapacity = 0 THEN RemovedAt(free, freeSegmentIt)
  ELSE LET moved == IF newCapacity < free[freeSegmentIt].capacity
                    THEN MovedDown(free, freeSegmentIt, newCapacity)
                    ELSE MovedUp(free, freeSegmentIt, newCapacity)
       IN [moved.free EXCEPT ![moved.it] = [begin |-> newBegin, capacity |-> newCapacity]]

\* Allocate: the resource after the call and the segment returned.  With a
\* freed page id that is no page any more, m_pages[ms.pageID] is read out of
\* the vector: what the call does is not defined.
Allocate(mr, capacity) ==
  LET free == mr.m_freeMainSegments
      freeSegmentIt == GetFreeSegmentByCapacity(mr, capacity)
  IN IF freeSegmentIt # EndOf(free)
     THEN [mr |-> [mr EXCEPT !.m_freeMainSegments =
                     HandleFreeSegmentChange(free, freeSegmentIt,
                                             free[freeSegmentIt].begin + capacity,
                                             free[freeSegmentIt].capacity - capacity)],
           ms |-> [pageID |-> MAIN_PAGEID, begin |-> free[freeSegmentIt].begin,
                   size |-> capacity]]
     ELSE IF mr.m_freedPages = <<>>
     THEN [mr |-> [mr EXCEPT !.m_pages = Append(@, NewPage(capacity))],
           ms |-> [pageID |-> Len(mr.m_pages), begin |-> 0, size |-> capacity]]
     ELSE LET pageID == mr.m_freedPages[Len(mr.m_freedPages)]
          IN IF pageID >= Len(mr.m_pages)
             THEN [mr |-> [mr EXCEPT !.isUndefined = TRUE], ms |-> EmptySegment]
             ELSE [mr |-> [mr EXCEPT !.m_pages[pageID + 1] = ResizedPage(@, capacity)],
                   ms |-> [pageID |-> pageID, begin |-> 0, size |-> capacity]]

\* Deallocate of a segment of the main page, with the free regions found
\* after it and before it: the free regions after the call.
DeallocateOfMain(mr, ms, nextSegmentIt, prevSegmentIt) ==
  LET free == mr.m_freeMainSegments
      segmentSize == ms.size
  IN IF prevSegmentIt # EndOf(free) /\ nextSegmentIt # EndOf(free)
     THEN LET begin == free[prevSegmentIt].begin
              capacity == free[prevSegmentIt].capacity + segmentSize
                            + free[nextSegmentIt].capacity
          IN IF prevSegmentIt < nextSegmentIt
             THEN HandleFreeSegmentChange(
                    HandleFreeSegmentChange(free, nextSegmentIt, 0, 0),
                    prevSegmentIt, begin, capacity)
             ELSE HandleFreeSegmentChange(
                    HandleFreeSegmentChange(free, prevSegmentIt, 0, 0),
                    nextSegmentIt, begin, capacity)
     ELSE IF prevSegmentIt # EndOf(free)
     THEN HandleFreeSegmentChange(free, prevSegmentIt, free[prevSegmentIt].begin,
                                  free[prevSegmentIt].capacity + segmentSize)
     ELSE IF nextSegmentIt # EndOf(free)
     THEN HandleFreeSegmentChange(free, nextSegmentIt,
                                  free[nextSegmentIt].begin - segmentSize,
                                  free[nextSegmentIt].capacity + segmentSize)
     ELSE IF free = <<>>
     THEN <<[begin |-> GetMainPageIndexOfBegin(ms), capacity |-> segmentSize]>>
     ELSE LET last_ == free[Len(free)]
              newSegment == [begin |-> GetMainPageIndexOfBegin(ms),
                             capacity |-> last_.capacity]
          IN HandleFreeSegmentChange(Append(free, newSegment), Len(free) + 1,
                                     newSegment.begin, segmentSize)

\* Deallocate: the resource after the call.
Deallocate(mr, ms) ==
  IF ms.size = 0 THEN mr
  ELSE IF ms.pageID = MAIN_PAGEID
  THEN [mr EXCEPT !.m_freeMainSegments =
          DeallocateOfMain(mr, ms, GetConnectingFreeSegment(mr, ms),
                           GetPreviousFreeSegment(mr, ms))]
  ELSE IF ms.pageID >= Len(mr.m_pages) THEN [mr EXCEPT !.isUndefined = TRUE]
  ELSE IF ms.pageID = Len(mr.m_pages) - 1
  THEN [mr EXCEPT !.m_pages = SubSeq(@, 1, Len(@) - 1)]
  ELSE [mr EXCEPT !.m_pages[ms.pageID + 1] = <<>>, !.m_freedPages = Append(@, ms.pageID)]

\* The elements a segment spans, and the pages after the elements of values
\* are written through the segment.
IsInPages(mr, ms) ==
  ms.pageID < Len(mr.m_pages) /\ ms.begin + ms.size <= Len(mr.m_pages[ms.pageID + 1])
Contents(mr, ms) == [i \in 1..ms.size |-> mr.m_pages[ms.pageID + 1][ms.begin + i]]
WrittenPages(pages, ms, values) ==
  [pages EXCEPT ![ms.pageID + 1] =
     [i \in DOMAIN @ |-> IF i > ms.begin /\ i <= ms.begin + Len(values)
                         THEN values[i - ms.begin] ELSE @[i]]]

\* IncreaseSegment: the resource and the segment after the call.
IncreaseSegment(mr, ms, sizeIncrease) ==
  IF ms.size = 0 THEN Allocate(mr, sizeIncrease)
  ELSE IF ms.pageID >= Len(mr.m_pages) THEN [mr |-> [mr EXCEPT !.isUndefined = TRUE], ms |-> ms]
  ELSE IF ms.pageID # MAIN_PAGEID
  THEN LET page == ResizedPage(mr.m_pages[ms.pageID + 1],
                               Len(mr.m_pages[ms.pageID + 1]) + sizeIncrease)
       IN [mr |-> [mr EXCEPT !.m_pages[ms.pageID + 1] = page],
           ms |-> [ms EXCEPT !.begin = 0, !.size = Len(page)]]
  ELSE LET free == mr.m_freeMainSegments
           freeSegmentIt == GetConnectingFreeSegment(mr, ms)
       IN IF freeSegmentIt = EndOf(free) \/ free[freeSegmentIt].capacity < sizeIncrease
          THEN LET newPool == Allocate(mr, ms.size + sizeIncrease)
               IN IF newPool.mr.isUndefined THEN [mr |-> newPool.mr, ms |-> ms]
                  ELSE [mr |-> Deallocate(
                                 [newPool.mr EXCEPT !.m_pages =
                                    WrittenPages(@, newPool.ms, Contents(mr, ms))],
                                 ms),
                        ms |-> newPool.ms]
          ELSE LET begin == GetMainPageIndexOfBegin(ms)
               IN [mr |-> [mr EXCEPT !.m_freeMainSegments =
                             HandleFreeSegmentChange(free, freeSegmentIt,
                                                     free[freeSegmentIt].begin + sizeIncrease,
                                                     free[freeSegmentIt].capacity - sizeIncrease)],
                   ms |-> [ms EXCEPT !.begin = begin, !.size = ms.size + 1]]

\* DecreaseSegment: the resource and the segment after the call.  A page
\* smaller than the decrease is asked for a size below zero, which as an
\* unsigned number no vector can have: the call does not return.
DecreaseSegment(mr, ms, sizeDecrease) ==
  IF ms.size = 0 THEN [mr |-> mr, ms |-> ms]
  ELSE LET decreased == [ms EXCEPT !.size = ms.size - sizeDecrease]
       IN IF ms.pageID = MAIN_PAGEID
          THEN LET freeMemorySegment ==
                     [ms EXCEPT !.begin = ms.begin + ms.size - sizeDecrease,
                                !.size = sizeDecrease]
               IN [mr |-> Deallocate(mr, freeMemorySegment), ms |-> decreased]
          ELSE IF \/ ms.pageID >= Len(mr.m_pages)
                  \/ Len(mr.m_pages[ms.pageID + 1]) < sizeDecrease
          THEN [mr |-> [mr EXCEPT !.isUndefined = TRUE], ms |-> ms]
          ELSE [mr |-> [mr EXCEPT !.m_pages[ms.pageID + 1] =
                          ResizedPage(@, Len(@) - sizeDecrease)],
                ms |-> decreased]

\* The resource under the calls of a caller that holds memory segments, as
\* the nodes of a tree hold their entity segments: nodes[s] is the segment
\* of holder s.  The caller allocates into an empty segment, deallocates,
\* increases and decreases the segments it holds, and writes through them.
FirstPageSize == 4
MaxSegmentNo == 2
MaxCapacity == 2
MaxIncreaseNo == 2
\* The caller stops before the resource has more than MaxPageNo pages or
\* more than MaxFreedPageNo freed page ids, or a segment more than
\* MaxSegmentSize elements.
MaxPageNo == 3
MaxFreedPageNo == 1
MaxSegmentSize == 3
SegmentIDs == 1..MaxSegmentNo
IsWithinBounds(r) ==
  /\ Len(r.mr.m_pages) <= MaxPageNo
  /\ Len(r.mr.m_freedPages) <= MaxFreedPageNo
  /\ r.ms.size <= MaxSegmentSize

ValueOf(s, i) == s
SpanOf(ms) == <<ms.pageID, ms.begin, ms.size>>
ContentsOrNone(mr, ms) == IF IsInPages(mr, ms) THEN Contents(mr, ms) ELSE <<>>
\* A call on the resource: the holder, the segment and its elements before
\* the call, the size asked for, and whether the call was defined.
ResourceCall(op, s, size, mr) ==
  [Call(op, s, NoGeom, ContentsOrNone(m_memoryResource, nodes[s]), FALSE, ~mr.isUndefined,
        SpanOf(nodes[s]))
     EXCEPT !.limit = size]

InitOfMemory ==
  /\ kind = "point" /\ split = FALSE
  /\ nodeSizes = <<>>
  /\ geom = <<>>
  /\ nodes = [s \in SegmentIDs |-> EmptySegment]
  /\ last = NoCall
  /\ hist = NoHist
  /\ m_memoryResource = InitMemoryResource(FirstPageSize)
  /\ tasks = <<>>

CallAllocate ==
  /\ ~m_memoryResource.isUndefined
  /\ \E s \in DOMAIN nodes, capacity \in 1..MaxCapacity :
       LET r == Allocate(m_memoryResource, capacity)
       IN /\ nodes[s].size = 0
          /\ IsWithinBounds(r)
          /\ m_memoryResource' = r.mr
          /\ nodes' = [nodes EXCEPT ![s] = r.ms]
          /\ last' = ResourceCall("Allocate", s, capacity, r.mr)
  /\ UNCHANGED <<tasks, kind, split, geom, hist, nodeSizes>>

CallDeallocate ==
  /\ ~m_memoryResource.isUndefined
  /\ \E s \in DOMAIN nodes :
       LET mr == Deallocate(m_memoryResource, nodes[s])
       IN /\ nodes[s].size > 0
          /\ IsWithinBounds([mr |-> mr, ms |-> EmptySegment])
          /\ m_memoryResource' = mr
          /\ nodes' = [nodes EXCEPT ![s] = EmptySegment]
          /\ last' = ResourceCall("Deallocate", s, 0, mr)
  /\ UNCHANGED <<tasks, kind, split, geom, hist, nodeSizes>>

CallIncreaseSegment ==
  /\ ~m_memoryResource.isUndefined
  /\ \E s \in DOMAIN nodes, sizeIncrease \in 1..MaxIncreaseNo :
       LET r == IncreaseSegment(m_memoryResource, nodes[s], sizeIncrease)
       IN /\ IsWithinBounds(r)
          /\ m_memoryResource' = r.mr
          /\ nodes' = [nodes EXCEPT ![s] = r.ms]
          /\ last' = ResourceCall("IncreaseSegment", s, sizeIncrease, r.mr)
  /\ UNCHANGED <<tasks, kind, split, geom, hist, nodeSizes>>

CallDecreaseSegment ==
  /\ ~m_memoryResource.isUndefined
  /\ \E s \in DOMAIN nodes :
       \E sizeDecrease \in 1..nodes[s].size :
         LET r == DecreaseSegment(m_memoryResource, nodes[s], sizeDecrease)
         IN /\ IsWithinBounds(r)
            /\ m_memoryResource' = r.mr
            /\ nodes' = [nodes EXCEPT ![s] = r.ms]
            /\ last' = ResourceCall("DecreaseSegment", s, sizeDecrease, r.mr)
  /\ UNCHANGED <<tasks, kind, split, geom, hist, nodeSizes>>

\* The holder writes its values through its segment.  A span taken before
\* the page was resized or cleared through another segment may dangle: the
\* write lands in the page, or what it does is not defined.
WriteSegment ==
  /\ ~m_memoryResource.isUndefined
  /\ \E s \in DOMAIN nodes :
       LET ms == nodes[s]
           isCurrent == \/ ms.pageID = MAIN_PAGEID
                        \/ /\ ms.pageID < Len(m_memoryResource.m_pages)
                           /\ ms.size = Len(m_memoryResource.m_pages[ms.pageID + 1])
           written == [m_memoryResource EXCEPT !.m_pages =
                         WrittenPages(@, ms, [i \in 1..ms.size |-> ValueOf(s, i)])]
           undefined == [m_memoryResource EXCEPT !.isUndefined = TRUE]
       IN /\ ms.size > 0
          /\ \E mr \in (IF IsInPages(m_memoryResource, ms) THEN {written} ELSE {})
                         \cup (IF isCurrent THEN {} ELSE {undefined}) :
               /\ m_memoryResource' = mr
               /\ last' = ResourceCall("Write", s, 0, mr)
  /\ UNCHANGED <<tasks, kind, split, nodes, geom, hist, nodeSizes>>

\* The calls of two holders on a resource whose elements nobody writes.
NextOfMemory ==
  \/ CallAllocate
  \/ CallDeallocate
  \/ CallIncreaseSegment
  \/ CallDecreaseSegment

SpecOfMemory == InitOfMemory /\ [][NextOfMemory]_vars

\* The calls and the writes of one holder.
InitOfContents ==
  /\ kind = "point" /\ split = FALSE
  /\ nodeSizes = <<>>
  /\ geom = <<>>
  /\ nodes = <<EmptySegment>>
  /\ last = NoCall
  /\ hist = NoHist
  /\ m_memoryResource = InitMemoryResource(FirstPageSize)
  /\ tasks = <<>>

NextOfContents ==
  \/ CallAllocate
  \/ CallDeallocate
  \/ CallIncreaseSegment
  \/ CallDecreaseSegment
  \/ WriteSegment

SpecOfContents == InitOfContents /\ [][NextOfContents]_vars

\* UpdateIndexes over the nodes of a tree whose entity segments are in the
\* resource: nodes[s] is the entity segment of node s, and the elements it
\* spans are the ids of the node.  updateMap is a function of the ids it
\* has as keys: <<>> is std::nullopt, <<id>> the id to write.
MaxNodeNo == 3
RECURSIVE TreeOfSegments(_, _, _, _)
TreeOfSegments(mr, segments, sizes, firstID) ==
  IF Len(segments) = Len(sizes) THEN [mr |-> mr, nodes |-> segments]
  ELSE LET size == sizes[Len(segments) + 1]
           r == Allocate(mr, size)
       IN TreeOfSegments(
            [r.mr EXCEPT !.m_pages =
               WrittenPages(@, r.ms, [i \in 1..size |-> firstID + i - 1])],
            Append(segments, r.ms), sizes, firstID + size)
SegmentSizes == UNION {[1..n -> 1..MaxCapacity] : n \in 2..MaxNodeNo}
RECURSIVE SumOf(_)
SumOf(sizes) == IF sizes = <<>> THEN 0 ELSE sizes[1] + SumOf(Tail(sizes))
UpdateMaps(idNo) ==
  UNION {[keys -> {<<>>, <<idNo>>}] : keys \in SUBSET (0..(idNo - 1))}

\* The loop of a node over its ids: the ids after it and the number of ids
\* that stay.
RECURSIVE UpdatedEntityIDs(_, _, _, _)
UpdatedEntityIDs(entityIDs, i, entityNo, updateMap) ==
  IF i >= entityNo THEN [entityIDs |-> entityIDs, entityNo |-> entityNo]
  ELSE IF entityIDs[i + 1] \notin DOMAIN updateMap
  THEN UpdatedEntityIDs(entityIDs, i + 1, entityNo, updateMap)
  ELSE IF updateMap[entityIDs[i + 1]] # <<>>
  THEN UpdatedEntityIDs([entityIDs EXCEPT ![i + 1] = updateMap[entityIDs[i + 1]][1]],
                        i + 1, entityNo, updateMap)
  ELSE UpdatedEntityIDs([entityIDs EXCEPT ![i + 1] = entityIDs[entityNo]],
                        i, entityNo - 1, updateMap)

\* The ids of the node written, before ResizeNodeEntities.
NodeRewritten(mr, ms, updateMap) ==
  LET updated == UpdatedEntityIDs(Contents(mr, ms), 0, ms.size, updateMap)
  IN [mr |-> [mr EXCEPT !.m_pages = WrittenPages(@, ms, updated.entityIDs)],
      entityNo |-> updated.entityNo]
ResizeNodeEntities(mr, ms, size) == DecreaseSegment(mr, ms, ms.size - size)
\* The function object of the loop, applied to one node.
NodeUpdated(mr, ms, updateMap) ==
  LET rewritten == NodeRewritten(mr, ms, updateMap)
  IN ResizeNodeEntities(rewritten.mr, ms, rewritten.entityNo)

\* The loop run on the nodes in the order of their keys, one after the other.
RECURSIVE UpdateIndexesFrom(_, _, _, _)
UpdateIndexesFrom(mr, segments, s, updateMap) ==
  IF s > Len(segments) THEN [mr |-> mr, nodes |-> segments]
  ELSE LET r == NodeUpdated(mr, segments[s], updateMap)
       IN UpdateIndexesFrom(r.mr, [segments EXCEPT ![s] = r.ms], s + 1, updateMap)
UpdateIndexes(mr, segments, updateMap) == UpdateIndexesFrom(mr, segments, 1, updateMap)

InitOfUpdate ==
  /\ kind = "point" /\ split = FALSE
  /\ nodeSizes = <<>>
  /\ geom = <<>>
  /\ \E sizes \in SegmentSizes :
       LET tree == TreeOfSegments(InitMemoryResource(FirstPageSize), <<>>, sizes, 0)
       IN nodes = tree.nodes /\ m_memoryResource = tree.mr
  /\ last = NoCall
  /\ hist = NoHist
  /\ tasks = <<>>

EntityNoOfNodes == SumOf([s \in DOMAIN nodes |-> nodes[s].size])
\* A call of UpdateIndexes: the map, whether it is the parallel one, whether
\* it has returned, and what the loop leaves when it takes one node after
\* the other.
UpdateCall(updateMap, isParallel, hasReturned) ==
  LET r == UpdateIndexes(m_memoryResource, nodes, updateMap)
  IN Call("UpdateIndexes", 0, <<updateMap>>, NoGeom, isParallel, hasReturned, <<r.mr, r.nodes>>)

\* UpdateIndexes<false>.
UpdateIndexesSequential ==
  /\ last = NoCall
  /\ \E updateMap \in UpdateMaps(EntityNoOfNodes) :
       LET r == UpdateIndexes(m_memoryResource, nodes, updateMap)
       IN /\ m_memoryResource' = r.mr
          /\ nodes' = r.nodes
          /\ last' = UpdateCall(updateMap, FALSE, TRUE)
  /\ UNCHANGED <<tasks, kind, split, geom, hist, nodeSizes>>

\* UpdateIndexes<true>: the loop hands every node to a task.
NoTask == [pc |-> "todo", hasNext |-> FALSE, nextSegmentIt |-> 0, hasPrev |-> FALSE,
           prevSegmentIt |-> 0, sizeDecrease |-> 0]
UpdateIndexesParallel ==
  /\ last = NoCall
  /\ \E updateMap \in UpdateMaps(EntityNoOfNodes) :
       /\ tasks' = [s \in DOMAIN nodes |-> NoTask]
       /\ last' = UpdateCall(updateMap, TRUE, FALSE)
  /\ UNCHANGED <<m_memoryResource, nodes, kind, split, geom, hist, nodeSizes>>

\* The task of a node writes the ids of the node and calls
\* ResizeNodeEntities.  Where DecreaseSegment deallocates the end of a
\* segment of the main page, the task has found the free regions next to
\* it and has not changed the list yet; elsewhere the task is done.
TaskOfNode ==
  /\ last.op = "UpdateIndexes" /\ ~last.ok
  /\ \E s \in DOMAIN tasks :
       LET ms == nodes[s]
           rewritten == NodeRewritten(m_memoryResource, ms, last.g[1])
           sizeDecrease == ms.size - rewritten.entityNo
           freeMemorySegment == [ms EXCEPT !.begin = ms.begin + ms.size - sizeDecrease,
                                           !.size = sizeDecrease]
           free == m_memoryResource.m_freeMainSegments
           nextSegmentIt == GetConnectingFreeSegment(m_memoryResource, freeMemorySegment)
           prevSegmentIt == GetPreviousFreeSegment(m_memoryResource, freeMemorySegment)
       IN /\ tasks[s].pc = "todo"
          /\ IF ms.size > 0 /\ ms.pageID = MAIN_PAGEID /\ sizeDecrease > 0
             THEN /\ m_memoryResource' = rewritten.mr
                  /\ nodes' = nodes
                  /\ tasks' = [tasks EXCEPT ![s] =
                                 [pc |-> "found",
                                  hasNext |-> nextSegmentIt # EndOf(free),
                                  nextSegmentIt |-> nextSegmentIt,
                                  hasPrev |-> prevSegmentIt # EndOf(free),
                                  prevSegmentIt |-> prevSegmentIt,
                                  sizeDecrease |-> sizeDecrease]]
             ELSE LET r == ResizeNodeEntities(rewritten.mr, ms, rewritten.entityNo)
                  IN /\ m_memoryResource' = r.mr
                     /\ nodes' = [nodes EXCEPT ![s] = r.ms]
                     /\ tasks' = [tasks EXCEPT ![s].pc = "done"]
  /\ UNCHANGED <<last, kind, split, geom, hist, nodeSizes>>

\* The task changes the list of the free regions at the places it has
\* found, and DecreaseSegment shortens the segment.  A place that is none
\* of the list any more is read outside the elements of the vector.
TaskOfNodeDeallocates ==
  /\ last.op = "UpdateIndexes" /\ ~last.ok
  /\ \E s \in DOMAIN tasks :
       LET ms == nodes[s]
           task == tasks[s]
           free == m_memoryResource.m_freeMainSegments
           freeMemorySegment == [ms EXCEPT !.begin = ms.begin + ms.size - task.sizeDecrease,
                                           !.size = task.sizeDecrease]
           isInList(has, it) == has => it <= Len(free)
           place(has, it) == IF has THEN it ELSE EndOf(free)
       IN /\ task.pc = "found"
          /\ m_memoryResource' =
               IF isInList(task.hasNext, task.nextSegmentIt)
                  /\ isInList(task.hasPrev, task.prevSegmentIt)
               THEN [m_memoryResource EXCEPT !.m_freeMainSegments =
                       DeallocateOfMain(m_memoryResource, freeMemorySegment,
                                        place(task.hasNext, task.nextSegmentIt),
                                        place(task.hasPrev, task.prevSegmentIt))]
               ELSE [m_memoryResource EXCEPT !.isUndefined = TRUE]
          /\ nodes' = [nodes EXCEPT ![s].size = ms.size - task.sizeDecrease]
          /\ tasks' = [tasks EXCEPT ![s].pc = "done"]
  /\ UNCHANGED <<last, kind, split, geom, hist, nodeSizes>>

\* The loop returns when every task is done.
UpdateIndexesReturns ==
  /\ last.op = "UpdateIndexes" /\ ~last.ok
  /\ \A s \in DOMAIN tasks : tasks[s].pc = "done"
  /\ tasks' = <<>>
  /\ last' = [last EXCEPT !.ok = TRUE]
  /\ UNCHANGED <<m_memoryResource, nodes, kind, split, geom, hist, nodeSizes>>

NextOfUpdate ==
  \/ UpdateIndexesSequential
  \/ UpdateIndexesParallel
  \/ TaskOfNode
  \/ TaskOfNodeDeallocates
  \/ UpdateIndexesReturns

SpecOfUpdate == InitOfUpdate /\ [][NextOfUpdate]_vars

---------------------------------------------------------------------------
\* Properties of the editing calls.

\* Number of times id e is stored over all the nodes.
RECURSIVE CountIn(_, _)
CountIn(ents, e) ==
  IF ents = <<>> THEN 0 ELSE (IF Head(ents) = e THEN 1 ELSE 0) + CountIn(Tail(ents), e)
RECURSIVE SumOver(_, _, _)
SumOver(ns, keys, e) ==
  IF keys = {} THEN 0
  ELSE LET k == CHOOSE x \in keys : TRUE
       IN CountIn(ns[k].ents, e) + SumOver(ns, keys \ {k}, e)
Occurrences(ns, e) == SumOver(ns, DOMAIN ns, e)

HasEntity(e) == HasSlot(e) /\ At(geom, e) # NoGeom
IsOutside(g) == g # NoGeom /\ ~IsInBoxSpace(g)

\* An entity list with id e removed and the ids above e decremented.
Renumbered(ents, e) ==
  LET IsOther(x) == x # e
      others == SelectSeq(ents, IsOther)
  IN [i \in DOMAIN others |-> IF others[i] > e THEN others[i] - 1 ELSE others[i]]

\* C2: after every completed mutating operation no node other than the
\* root has both an empty entity list and no children.
C2_NodeMinimality ==
  \A key \in DOMAIN nodes :
    key # GetRootKey => (nodes[key].ents # <<>> \/ nodes[key].children # {})

\* C6 as stated: after insert of a non-resident id e, erase of e with the
\* default template arguments and insert of e, the resident ids are those
\* before the first insertion plus e, whatever the other resident ids.
C6_EraseThenInsertAnyIDs ==
  hist.phase = 3 => StoredIDs(nodes) = hist.base \cup {hist.e}

\* C6 amended: the same, provided no id resident before the first
\* insertion is greater than e.
C6_EraseThenInsert ==
  (hist.phase = 3 /\ \A r \in hist.base : r < hist.e)
    => StoredIDs(nodes) = hist.base \cup {hist.e}

C6_Witness ==
  /\ hist.phase = 3
  /\ hist.base # {}
  /\ \A r \in hist.base : r < hist.e
  /\ StoredIDs(nodes) = hist.base \cup {hist.e}

\* C7: a successful erase with DO_UPDATE_ENTITY_IDS (by id, or by id and
\* geometry; point tree and box tree) leaves in every node the ids it had,
\* without the removed id, those above it decremented by one.
C7_EraseRenumbers ==
  [][(last'.op \in {"EraseEntity", "Erase"} /\ last'.ok /\ last'.flag)
       => \A key \in DOMAIN nodes' :
            /\ key \in DOMAIN nodes
            /\ nodes'[key].ents = Renumbered(nodes[key].ents, last'.id)]_vars

\* C8: after Create and after a successful Insert or InsertWithRebalancing
\* of a non-resident id every entity is stored in at least one node, and in
\* exactly one when entities are not split (always so in a point tree).
C8_EveryEntityStored ==
  (last.op \in {"Create", "Insert", "InsertWithRebalancing"} /\ last.ok)
    => \A e \in EntityIDs :
         HasEntity(e) => /\ Occurrences(nodes, e) >= 1
                         /\ ~split => Occurrences(nodes, e) = 1

C8_Witness ==
  /\ last.op = "InsertWithRebalancing" /\ last.ok /\ split
  /\ Cardinality(NodesOf(nodes, last.id)) >= 2
  /\ \E e \in StoredIDs(nodes) : e # last.id

C10_EraseNonResident ==
  [][(last'.op = "Erase" /\ last'.id \notin StoredIDs(nodes))
       => /\ ~last'.ok
          /\ \A key \in DOMAIN nodes :
               nodes[key].ents # <<>>
                 => key \in DOMAIN nodes' /\ nodes'[key].ents = nodes[key].ents]_vars

C10_Witness ==
  /\ last.op = "Erase" /\ ~last.ok
  /\ last.id \notin StoredIDs(nodes)
  /\ last.g # NoGeom /\ IsInBoxSpace(last.g)
  /\ Cardinality(StoredIDs(nodes)) >= 2

---------------------------------------------------------------------------
\* Properties of the searches.

\* The resident ids whose geometry satisfies the predicate of a range
\* search against the query box.
IsInRange(range, doMustFullyContain, g) ==
  IF kind = "point" THEN DoesBoxContainPointAD(range, g)
  ELSE IF doMustFullyContain THEN DoesRangeContainBoxAD(range, g)
  ELSE AreBoxesOverlappedStrict(range, g)
IDsInRange(range, doMustFullyContain) ==
  {e \in StoredIDs(nodes) : IsInRange(range, doMustFullyContain, At(geom, e))}

\* C1: RangeSearch returns exactly the resident ids whose geometry
\* satisfies the predicate against the query box, for every query box, one
\* of no volume and one covering the world box included.
C1_RangeSearchExact ==
  last.op = "RangeSearch" => Range(last.res) = IDsInRange(last.range, last.flag)

\* The resident ids whose box contains the pick point, boundaries included.
IDsPicked(pickPoint) ==
  {e \in StoredIDs(nodes) : DoesBoxContainPointAD(At(geom, e), pickPoint)}

\* C3: PickSearch with a pick point inside the world box returns every
\* resident id whose box contains the point and no other id, also for a
\* point on a cell boundary or on a node centre.
C3_PickSearchExact ==
  (last.op = "PickSearch" /\ DoesBoxContainPointAD(BoxSpace, last.point))
    => Range(last.res) = IDsPicked(last.point)

\* The resident ids nearer to the search point than the limit.
IDsWithin(searchPoint, maxDistanceWithin) ==
  {e \in StoredIDs(nodes) : Distance2(searchPoint, At(geom, e)) < maxDistanceWithin}

\* C4: GetNearestNeighbors(p, k, maxDistanceWithin) returns min(k, m) ids,
\* m the number of resident points nearer to p than maxDistanceWithin, for
\* every k >= 0, in ascending order of distance, and no resident point
\* left out is nearer to p than a returned one.
C4_NearestNeighborsExact ==
  last.op = "GetNearestNeighbors"
    => LET res == last.res
           dist(e) == Distance2(last.point, At(geom, e))
       IN /\ Len(res) = Min2(last.id, Cardinality(IDsWithin(last.point, last.limit)))
          /\ Range(res) \subseteq StoredIDs(nodes)
          /\ \A i, j \in DOMAIN res : i < j => res[i] # res[j] /\ dist(res[i]) <= dist(res[j])
          /\ \A e \in StoredIDs(nodes) \ Range(res) :
               \A i \in DOMAIN res : ~(dist(e) < dist(res[i]))

\* The unordered pairs of distinct resident boxes that overlap strictly.
PairsCollided ==
  {{a, b} : a, b \in StoredIDs(nodes)} \cap
  {pair \in SUBSET StoredIDs(nodes) :
     /\ Cardinality(pair) = 2
     /\ \A a, b \in pair : a # b => AreBoxesOverlappedStrict(At(geom, a), At(geom, b))}

IsBefore(searchPoint, a, b) ==
  LET da == Distance2(searchPoint, At(geom, a))
      db == Distance2(searchPoint, At(geom, b))
  IN da < db \/ (da = db /\ a < b)
NearestIDs(searchPoint, neighborNo, maxDistanceWithin) ==
  LET within == IDsWithin(searchPoint, maxDistanceWithin)
  IN {e \in within : Cardinality({f \in within : IsBefore(searchPoint, f, e)}) < neighborNo}
\* Two resident points at the same distance compete for the last place.
IsTieAtLastPlace(searchPoint, neighborNo, maxDistanceWithin) ==
  LET within == IDsWithin(searchPoint, maxDistanceWithin)
      nearest == NearestIDs(searchPoint, neighborNo, maxDistanceWithin)
  IN \E a \in nearest, b \in within \ nearest :
       Distance2(searchPoint, At(geom, a)) = Distance2(searchPoint, At(geom, b))

\* C12: when resident points at the same distance from the search point
\* compete for the last places of the k >= 1 nearest neighbours,
\* GetNearestNeighbors returns exactly k ids, and of the tied points
\* those of the smallest ids.
C12_NearestNeighborsTies ==
  (/\ last.op = "GetNearestNeighbors" /\ last.id >= 1
   /\ IsTieAtLastPlace(last.point, last.id, last.limit))
    => /\ Len(last.res) = last.id
       /\ Range(last.res) = NearestIDs(last.point, last.id, last.limit)
\* C13: in a box tree with split on, a query that returns ids returns
\* each id at most once.
C13_QueryIDsUnique ==
  (/\ kind = "box" /\ split
   /\ last.op \in {"RangeSearch", "PickSearch", "FrustumCulling"})
    => \A i, j \in DOMAIN last.res : i # j => last.res[i] # last.res[j]

\* The resident ids no plane of the list has on its negative side.
IDsNotNegative(boundaryPlanes) ==
  {e \in StoredIDs(nodes) :
     \A i \in DOMAIN boundaryPlanes :
       GetEntityPlaneRelation(At(geom, e), boundaryPlanes[i].OrigoDistance,
                              boundaryPlanes[i].Normal, 0) # "Negative"}

\* C14: FrustumCulling with a list of planes that is not empty returns a
\* resident entity if and only if no plane of the list has it on its
\* negative side, wherever that plane is in the list.
C14_FrustumCullingExact ==
  (last.op = "FrustumCulling" /\ last.planes # <<>>)
    => Range(last.res) = IDsNotNegative(last.planes)

---------------------------------------------------------------------------
\* Properties of the initialisation.

\* The configuration a call of Init or Create was made with is invalid.
IsDepthTooLarge(c) == c.id > MAX_THEORETICAL_DEPTH_ID
IsInvalidConfig(c) ==
  /\ c.op \in {"Init", "Create"}
  /\ \/ c.id = 0
     \/ IsDepthTooLarge(c)
     \/ c.limit = 0
     \/ c.op = "Init" /\ c.flag
IsInvalidConfigOfCode(c) ==
  /\ c.op \in {"Init", "Create"}
  /\ \/ c.op = "Init" /\ c.id = 0
     \/ IsDepthTooLarge(c)
     \/ c.limit = 0
     \/ c.op = "Init" /\ c.flag

\* C11 as stated: Init or Create with maxDepth = 0, with maxDepth above
\* the theoretical maximum or with maxEntitiesPerNode = 0, and Init on a
\* tree that holds nodes, terminate the process: the call does not return
\* and the tree is not touched.
C11_InvalidConfigTerminatesAnyCall ==
  [][IsInvalidConfig(last') => (Terminated' /\ nodes' = nodes)]_vars

\* C11 amended: the same, with maxDepth = 0 for Init only; and nothing is
\* called on the tree after the termination.
C11_InvalidConfigTerminates ==
  [][~Terminated /\ (IsInvalidConfigOfCode(last') => (Terminated' /\ nodes' = nodes))]_vars

C11_Witness ==
  /\ Terminated
  /\ last.op = "Create" /\ last.limit = 0 /\ last.id = 0 /\ ~last.flag

\* C16: Init after Reset leaves the tree as Init leaves a newly
\* constructed tree: the root node alone, and the same cached node sizes.
C16_InitAfterReset ==
  (last.op = "Init" /\ last.ok /\ last.again)
    => /\ nodes = InitBase(<<>>, <<>>, last.id, last.limit).ns
       /\ nodeSizes = InitBase(<<>>, <<>>, last.id, last.limit).sizes

---------------------------------------------------------------------------
\* Properties of the structure of the tree.

\* C20: the children sets and the node store describe the same tree: every
\* child id a node records has a node under the key (key << D) | childId,
\* and every node but the root is recorded as a child by the node that
\* exists under its parent key.
C20_ChildrenMatchNodes ==
  \A key \in DOMAIN nodes :
    /\ \A childID \in nodes[key].children : GetChildNodeKey(key, childID) \in DOMAIN nodes
    /\ key # GetRootKey
         => /\ GetParentKey(key) \in DOMAIN nodes
            /\ GetChildIDOfKey(key) \in nodes[GetParentKey(key)].children

C20_Witness ==
  /\ last.op \in {"EraseEntity", "Erase"} /\ last.ok
  /\ Cardinality(DOMAIN nodes) >= 3
  /\ \E key \in DOMAIN nodes : key # GetRootKey /\ nodes[key] = EmptyNode

\* C17: Erase by id and geometry of a resident id, with the geometry the
\* id is stored under, returns true, and afterwards no node stores the
\* entity: the id is gone, and with DO_UPDATE_ENTITY_IDS the ids stored are
\* those of the other entities, renumbered.
C17_EraseResident ==
  [][(/\ last'.op = "Erase"
      /\ last'.id \in StoredIDs(nodes)
      /\ last'.g = At(geom, last'.id))
       => /\ last'.ok
          /\ StoredIDs(nodes') =
               {IF last'.flag /\ x > last'.id THEN x - 1 ELSE x :
                  x \in StoredIDs(nodes) \ {last'.id}}]_vars

\* C19: Update by id, old geometry and new geometry (with doInsertToLeaf
\* or with rebalancing) of an id no node stores returns false and leaves
\* the tree as it was, also when the old and the new geometry resolve to
\* the same smallest existing node.
C19_UpdateNonResident ==
  [][(/\ last'.op \in {"UpdateOld", "UpdateOldRebalancing"}
      /\ last'.id \notin StoredIDs(nodes))
       => (~last'.ok /\ nodes' = nodes)]_vars

\* The natural node of box g, and the children of it that the touched
\* dimensions of g select.
NaturalNode(g) == GetHashAtDepth(GetRangeLocationMetaDataBox(g), MaxDepthID)
IsStraddling(g) == GetRangeLocationMetaDataBox(g).TouchedDimensionsFlag # 0
SplitChildren(g) ==
  LET location == GetRangeLocationMetaDataBox(g)
      touched == location.TouchedDimensionsFlag
  IN {GetChildNodeKey(NaturalNode(g), location.LowerSegmentID + bits) :
        bits \in {b \in 0..(CHILD_NO - 1) : BitAnd(b, touched) = b}}

\* The ids a completed call has stored: every id of the container after
\* Create, the id handed over after an insertion.
IDsStoredBy(c) ==
  IF ~c.ok THEN {}
  ELSE IF c.op = "Create" THEN StoredIDs(nodes)
  ELSE IF c.op \in {"Insert", "InsertWithRebalancing"} THEN {c.id}
  ELSE {}

C15_ParallelEqualsSerial ==
  last.op = "CreateParallel"
    => /\ DOMAIN nodes = DOMAIN Create(geom)
       /\ \A key \in DOMAIN nodes :
            Range(nodes[key].ents) = Range(Create(geom)[key].ents)

C15_Witness ==
  /\ last.op = "CreateParallel" /\ split
  /\ Cardinality(DOMAIN nodes) >= 4
  /\ \E e \in StoredIDs(nodes) : Cardinality(NodesOf(nodes, e)) >= 2
  /\ \E i \in DOMAIN last.res : last.res[i] # i - 1

---------------------------------------------------------------------------
\* Properties of the Morton indexing.

\* C30: decoding the key of the deepest level made of an encoded grid id
\* gives the grid id back, in every dimension and at every depth the type
\* of the location id admits.
C30_DecodeOfEncode ==
  last.op = "Decode" => last.res = last.g

C30_Witness ==
  /\ last.op = "Decode" /\ last.id = 2 /\ ~last.flag
  /\ last.limit = MaxTheoreticalDepthID(2)
  /\ last.g = <<{last.limit - 1}, 0..(last.limit - 1)>>
  /\ last.res = last.g

---------------------------------------------------------------------------
\* Properties of the order of the locations.

\* The locations of the boxes of the container in the order the parallel
\* build has sorted them.
SortedLocations == [i \in DOMAIN last.res |-> LocationOf(At(geom, last.res[i]))]

\* C27 as stated: IsLess orders by location id and, at equal location ids,
\* puts the deeper location first; the sort of the parallel build of the
\* box tree leaves the locations in this order.
C27_IsLessDeeperFirst ==
  (last.op = "CreateParallel" /\ kind = "box")
    => \A i, j \in DOMAIN SortedLocations :
         LET l == SortedLocations[i]
             r == SortedLocations[j]
         IN /\ IsLess(l, r) = IsLessLocation(l, r)
            /\ l.LocID < r.LocID => IsLess(l, r)
            /\ (l.LocID = r.LocID /\ l.DepthID > r.DepthID) => IsLess(l, r)
            /\ (i < j /\ l.LocID = r.LocID) => l.DepthID >= r.DepthID

\* C27: IsLess orders by location id and, at equal location ids, puts the
\* shallower location first; the sort of the parallel build of the box tree
\* leaves the locations in this order.
C27_IsLessShallowerFirst ==
  (last.op = "CreateParallel" /\ kind = "box")
    => \A i, j \in DOMAIN SortedLocations :
         LET l == SortedLocations[i]
             r == SortedLocations[j]
         IN /\ IsLess(l, r) = IsLessLocation(l, r)
            /\ l.LocID < r.LocID => IsLess(l, r)
            /\ (l.LocID = r.LocID /\ l.DepthID < r.DepthID) => IsLess(l, r)
            /\ (l.LocID = r.LocID /\ l.DepthID >= r.DepthID) => ~IsLess(l, r)
            /\ i < j => l.LocID <= r.LocID
            /\ (i < j /\ l.LocID = r.LocID) => l.DepthID <= r.DepthID

C27_Witness ==
  /\ last.op = "CreateParallel" /\ kind = "box"
  /\ \E i, j \in DOMAIN SortedLocations :
       /\ i < j /\ last.res[i] > last.res[j]
       /\ SortedLocations[i].LocID = SortedLocations[j].LocID
       /\ SortedLocations[i].DepthID < SortedLocations[j].DepthID
  /\ \E i, j \in DOMAIN SortedLocations : SortedLocations[i].LocID < SortedLocations[j].LocID

\* The cell of the grid id g in the raster of the nodes of a depth, and the
\* half of a node of that depth the grid id lies in, of a tree maxDepthID deep.
CellAtDepth(g, depthID, maxDepthID) == g \div Pow2(maxDepthID - depthID)
HalfAtDepth(g, depthID, maxDepthID) == CellAtDepth(g, depthID + 1, maxDepthID) % 2
AreInOneNode(gridIDRange, depthID, maxDepthID) ==
  \A d \in Dims : CellAtDepth(gridIDRange.Min[d], depthID, maxDepthID)
                    = CellAtDepth(gridIDRange.Max[d], depthID, maxDepthID)

\* C29: the depth is the largest one at which both grid cells lie in one
\* node, the location id is the Morton code of the corner of that node, bit
\* d of the touched flag tells that the two cells lie in different halves
\* of the node in dimension d, and the lower segment is the child the
\* minimum lies in.
C29_RangeLocationMetaData ==
  last.op = "GetRangeLocationMetaData"
    => LET maxDepthID == last.id
           depthID == last.res[1]
           corner == [d \in Dims |-> CellAtDepth(last.range.Min[d], depthID, maxDepthID)
                                       * Pow2(maxDepthID - depthID)]
       IN /\ depthID \in 0..maxDepthID
          /\ AreInOneNode(last.range, depthID, maxDepthID)
          /\ \A deeper \in (depthID + 1)..maxDepthID : ~AreInOneNode(last.range, deeper, maxDepthID)
          /\ last.res[2] = Encode(corner)
          /\ Decode(GetHash(depthID, ShiftR(last.res[2], (maxDepthID - depthID) * DIMENSION_NO)),
                    maxDepthID) = corner
          /\ depthID < maxDepthID
               => \A d \in Dims :
                    /\ (ShiftR(last.res[3], d - 1) % 2 = 1)
                         <=> HalfAtDepth(last.range.Min[d], depthID, maxDepthID)
                               # HalfAtDepth(last.range.Max[d], depthID, maxDepthID)
                    /\ ShiftR(last.res[4], d - 1) % 2
                         = HalfAtDepth(last.range.Min[d], depthID, maxDepthID)
          /\ last.res[3] < CHILD_NO /\ last.res[4] < CHILD_NO
          /\ depthID = maxDepthID => last.res[3] = 0

C29_Witness ==
  /\ last.op = "GetRangeLocationMetaData" /\ last.id = MaxDepthIDOfRange
  /\ last.res[1] = 1 /\ last.res[2] # 0 /\ last.res[3] = 1 /\ last.res[4] = 2

---------------------------------------------------------------------------
\* Properties of the places of the entities.

\* The cell of a node, and whether a geometry lies in it (a point) or
\* overlaps it (a box).
NodeCell(key) == GetNodeBox(GetDepthID(key), CalculateNodeCenter(key))
IsInCell(key, g) ==
  IF kind = "point" THEN DoesBoxContainPointAD(NodeCell(key), g)
  ELSE GetBoxRelation(NodeCell(key), g) # "Separated"

\* C21: every id stored in a node names an entity of the container whose
\* geometry lies inside the cell of the node (point tree) or overlaps it
\* (box tree).
C21_Containment ==
  \A key \in DOMAIN nodes : \A e \in Range(nodes[key].ents) :
    HasEntity(e) /\ IsInCell(key, At(geom, e))

\* The cell of the node contains the box, and the node is the deepest one
\* that does.
ContainsFully(key, box) == AreBoxesOverlapped(NodeCell(key), box, TRUE)
IsNaturalNode(key, box) ==
  /\ ContainsFully(key, box)
  /\ GetDepthID(key) < MaxDepthID
       => \A childID \in 0..(CHILD_NO - 1) : ~ContainsFully(GetChildNodeKey(key, childID), box)

\* C22 as stated: after a bulk build of a box tree without split every box
\* id is stored in one node, the node of the natural depth of the box.
C22_BoxInNaturalNode ==
  (last.op \in {"Create", "CreateParallel"} /\ kind = "box" /\ ~split)
    => \A e \in EntityIDs :
         HasEntity(e)
           => /\ Occurrences(nodes, e) = 1
              /\ \A key \in NodesOf(nodes, e) : IsNaturalNode(key, At(geom, e))

\* C22: after a bulk build of a box tree without split every box id is
\* stored in one node whose cell contains the box: the node of the natural
\* depth of the box, or a node above it that was not divided because its
\* subtree holds no more boxes than a node may.
C22_BoxInNaturalNodeOrLeaf ==
  (last.op \in {"Create", "CreateParallel"} /\ kind = "box" /\ ~split)
    => \A e \in EntityIDs :
         HasEntity(e)
           => /\ Occurrences(nodes, e) = 1
              /\ \A key \in NodesOf(nodes, e) :
                   /\ ContainsFully(key, At(geom, e))
                   /\ \/ IsNaturalNode(key, At(geom, e))
                      \/ /\ nodes[key].children = {}
                         /\ Len(nodes[key].ents) <= MaxElementNo

C22_Witness ==
  /\ last.op \in {"Create", "CreateParallel"} /\ kind = "box" /\ ~split
  /\ \E e \in StoredIDs(nodes) : \E key \in NodesOf(nodes, e) :
       GetDepthID(key) = 0 /\ nodes[key].children # {} /\ IsNaturalNode(key, At(geom, e))
  /\ \E e \in StoredIDs(nodes) : \E key \in NodesOf(nodes, e) :
       GetDepthID(key) = 1 /\ ~IsNaturalNode(key, At(geom, e))

---------------------------------------------------------------------------
\* Properties of the rebalancing.

\* The nodes of the subtree of a node, and whether the cell of a node
\* contains a geometry.
Subtree(ns, key) ==
  {k \in DOMAIN ns : /\ GetDepthID(k) >= GetDepthID(key)
                     /\ ShiftR(k, DIMENSION_NO * (GetDepthID(k) - GetDepthID(key))) = key}
IDsOfSubtree(ns, key) == UNION {Range(ns[k].ents) : k \in Subtree(ns, key)}
ContainsGeometry(key, g) ==
  IF kind = "point" THEN DoesBoxContainPointAD(NodeCell(key), g) ELSE ContainsFully(key, g)
\* The child of key on the branch of a geometry deeper than key.
ChildOfBranch(key, g) ==
  GetChildNodeKey(key, ChildIDBelow(LocationOf(g).LocID, GetDepthID(key)))
IsFullRebalancing(c) == c.op = "InsertWithRebalancing" /\ c.ok /\ c.res # <<>>

\* C24 as stated: after the full rebalancing of a node of depth d the node
\* stores only entities of natural depth d; every other entity it held and
\* the new one are in the subtree of the child whose cell contains them;
\* the ids of the subtree are those before the call and the new one, each
\* as often as before.
C24_RebalancingMovesDown ==
  [][IsFullRebalancing(last')
       => LET key == last'.res[1]
          IN /\ \A e \in Range(nodes'[key].ents) :
                  LocationOf(At(geom', e)).DepthID = GetDepthID(key)
             /\ \A e \in (Range(nodes[key].ents) \cup {last'.id}) \ Range(nodes'[key].ents) :
                  \E childID \in 0..(CHILD_NO - 1) :
                    /\ ContainsGeometry(GetChildNodeKey(key, childID), At(geom', e))
                    /\ e \in IDsOfSubtree(nodes', GetChildNodeKey(key, childID))
             /\ \A e \in EntityIDs :
                  SumOver(nodes', Subtree(nodes', key), e)
                    = SumOver(nodes, Subtree(nodes, key), e) + (IF e = last'.id THEN 1 ELSE 0)]_vars

\* C24: so it is without split.  With split the node keeps the boxes split
\* into it from above and, of the boxes of natural depth d, those that
\* touch every child; a box of natural depth d that does not is in the
\* subtree of every child it overlaps; no id of the subtree is lost.
C24_RebalancingMovesDownOrSplits ==
  [][IsFullRebalancing(last')
       => LET key == last'.res[1]
              depthID == GetDepthID(key)
              location(e) == LocationOf(At(geom', e))
              moved == (Range(nodes[key].ents) \cup {last'.id}) \ Range(nodes'[key].ents)
          IN /\ depthID < MaxDepthID
             /\ \A e \in Range(nodes'[key].ents) :
                  IF split
                  THEN \/ location(e).DepthID < depthID
                       \/ /\ location(e).DepthID = depthID
                          /\ IsAllChildTouched(location(e).TouchedDimensionsFlag)
                  ELSE location(e).DepthID = depthID
             /\ \A e \in moved :
                  IF split /\ location(e).DepthID = depthID
                  THEN \A childID \in Range(GetSplitChildSegments(location(e))) :
                         /\ IsInCell(GetChildNodeKey(key, childID), At(geom', e))
                         /\ e \in IDsOfSubtree(nodes', GetChildNodeKey(key, childID))
                  ELSE /\ ContainsGeometry(ChildOfBranch(key, At(geom', e)), At(geom', e))
                       /\ e \in IDsOfSubtree(nodes', ChildOfBranch(key, At(geom', e)))
             /\ IDsOfSubtree(nodes', key) = IDsOfSubtree(nodes, key) \cup {last'.id}
             /\ ~split
                  => \A e \in EntityIDs :
                       SumOver(nodes', Subtree(nodes', key), e)
                         = SumOver(nodes, Subtree(nodes, key), e)
                             + (IF e = last'.id THEN 1 ELSE 0)]_vars

\* A rebalanced node of depth 1 that keeps a box split into it from the
\* root and has handed a box down to a child.
C24_Witness ==
  /\ IsFullRebalancing(last) /\ split
  /\ LET key == last.res[1]
     IN /\ GetDepthID(key) = 1
        /\ nodes[key].children # {}
        /\ \E e \in Range(nodes[key].ents) : LocationOf(At(geom, e)).DepthID = 0
        /\ \E e \in IDsOfSubtree(nodes, key) \ Range(nodes[key].ents) :
             LocationOf(At(geom, e)).DepthID = 2

---------------------------------------------------------------------------
\* Properties of the memory resource.

Holders == DOMAIN nodes
IsResourceCall == last.op \in {"Allocate", "Deallocate", "IncreaseSegment", "DecreaseSegment"}
ElementsOf(ms) == {<<ms.pageID, i>> : i \in ms.begin..(ms.begin + ms.size - 1)}

\* C25: after every sequence of Allocate, Deallocate, IncreaseSegment and
\* DecreaseSegment calls on live segments, no two live non-empty segments
\* share a storage element, also when an allocation was served from a page
\* freed before.
C25_SegmentsShareNoElement ==
  \A s \in Holders, t \in Holders :
    s # t => ElementsOf(nodes[s]) \cap ElementsOf(nodes[t]) = {}

\* C26: IncreaseSegment(seg, n) of a non-empty live segment of length L
\* leaves seg with length L + n and its first L elements as they were, in
\* place and reallocated.
C26_IncreasedByN ==
  (last.op = "IncreaseSegment" /\ last.ok /\ last.res[3] > 0)
  => LET ms == nodes[last.id]
     IN /\ ms.size = last.res[3] + last.limit
        /\ IsInPages(m_memoryResource, ms)
        /\ SubSeq(Contents(m_memoryResource, ms), 1, last.res[3]) = last.g0

IsSortedByCapacity(free) ==
  \A i \in DOMAIN free, j \in DOMAIN free : i < j => free[i].capacity <= free[j].capacity
\* The first region of the list that has the capacity an allocation asks
\* of a region (MIN_SEGMENT_SIZE elements more than it hands out), or end().
FirstSufficient(free, capacity) ==
  FindIf([i \in DOMAIN free |-> free[i].capacity >= capacity + MIN_SEGMENT_SIZE])
CapacitiesAsked == 0..(MaxSegmentSize + MaxIncreaseNo)

\* C28: after every Allocate, Deallocate, IncreaseSegment and
\* DecreaseSegment call the free regions of the main page are in ascending
\* order of capacity, and the partition-point search of the allocation
\* returns the first, smallest region whose capacity is sufficient for
\* the allocation.
C28_FreeRegionsSorted ==
  LET free == m_memoryResource.m_freeMainSegments
  IN /\ IsSortedByCapacity(free)
     /\ \A capacity \in CapacitiesAsked :
          LET it == GetFreeSegmentByCapacity(m_memoryResource, capacity)
          IN /\ it = FirstSufficient(free, capacity)
             /\ \A i \in DOMAIN free :
                  free[i].capacity >= capacity + MIN_SEGMENT_SIZE
                  => it # EndOf(free) /\ free[it].capacity <= free[i].capacity
\* A call has left three free regions that are not in the order of their
\* places in the page, and the search of an allocation passes the first.
C28_Witness ==
  LET free == m_memoryResource.m_freeMainSegments
  IN /\ IsResourceCall /\ last.ok
     /\ Len(free) >= 3
     /\ \E i \in DOMAIN free, j \in DOMAIN free :
          i < j /\ free[i].begin > free[j].begin /\ free[i].capacity < free[j].capacity
     /\ \E capacity \in CapacitiesAsked :
          GetFreeSegmentByCapacity(m_memoryResource, capacity) \notin {1, EndOf(free)}

---------------------------------------------------------------------------
\* Properties of the parallel loop over the nodes.

\* Two tasks are between the search of the free regions and the change of
\* their list.
AreTasksInDeallocate ==
  \E s \in DOMAIN tasks, t \in DOMAIN tasks :
    s # t /\ tasks[s].pc = "found" /\ tasks[t].pc = "found"

\* C23: UpdateIndexes with the parallel policy leaves the ids of every node
\* and the resource as the loop that takes one node after the other leaves
\* them, and no two tasks of the nodes are at the free regions of the
\* resource at the same time.
C23_ParallelAsSequential ==
  /\ ~AreTasksInDeallocate
  /\ (last.op = "UpdateIndexes" /\ last.flag /\ last.ok)
     => <<m_memoryResource, nodes>> = last.res

=============================================================================
